---- MODULE Spec2Model ----
(***************************************************************************)
(* Momentum trading bot (ubit_momentum): the per-instrument trading state, *)
(* the decision loop, the position manager, the buy and sell paths and the *)
(* user command processor, as cooperative asyncio tasks.                   *)
(*                                                                         *)
(* The repository holds two programs with the same class names:            *)
(*   momentum_trader.py  (stand-alone script, its own parameters)          *)
(*   trader.py           (started by main.py, parameters from config.py)   *)
(* `variant' selects the program; DRY_RUN is the configuration switch both *)
(* read.  Both are fixed at start.                                         *)
(*                                                                         *)
(* Units.  Prices are integers: price tick * 1000, so that every stop,     *)
(* take-profit and trailing level (a price times 1 +/- k/1000) is an       *)
(* integer.  Rates are per mille (0.006 -> 6).  Won amounts are fixed      *)
(* point with MoneyScale units per won, volumes with MoneyScale units per  *)
(* coin, which makes amount/price, volume*price and the fee exact on the   *)
(* price grid.  Times are seconds.                                         *)
(*                                                                         *)
(* Atomicity.  asyncio runs a task until its next await.  Every action is  *)
(* one such run: other tasks move only while the trading loop is           *)
(* suspended (its one-second sleep, or the sleep after an order).          *)
(***************************************************************************)
EXTENDS Integers, Sequences, FiniteSets, TLC

\* ------------------------------------------------------------------------
\* Parameters of the programs
\* ------------------------------------------------------------------------
MAX_INVESTMENT == 1000000
MIN_ORDER_AMOUNT == 5000
MIN_SELL_VALUE == 5000
\* TRADING_FEE_RATE = 0.0005 = 1 / TRADING_FEE_DIV
TRADING_FEE_DIV == 2000
\* per mille
INITIAL_STOP_LOSS == 20
DYNAMIC_STOP_LOSS_MIN == 15
DYNAMIC_STOP_LOSS_MAX == 25
TRAILING_STOP_ACTIVATION == 8
TRAILING_STOP_DISTANCE == 4
TRAILING_MIN_PROFIT == 3
BREAK_EVEN_TRIGGER == 6
TAKE_PROFIT_TARGET == 25
\* seconds
MAX_HOLDING_TIME == 21600
MAX_TRADES_PER_HOUR == 20
TRADE_COOLDOWN == 300
COOL_DOWN_AFTER_LOSS == 600
CONSECUTIVE_LOSS_COOLDOWN == 1200
HOUR == 3600
RECENT_LOSS_LIMIT == 3
\* re-entry needs the price at or below 98% of the last exit price (per mille)
REENTRY_FACTOR == 980

\* ------------------------------------------------------------------------
\* Bounds of the model
\* ------------------------------------------------------------------------
\* trade records one instrument may collect
MaxTrades == 2

\* instants the wall clock shows, seconds after the start
Times == {0, TRADE_COOLDOWN}
Per == 10 * 100
PriceTicks == {210, 220, 225, 231}
Prices == {t * Per : t \in PriceTicks}
MoneyScale == 9 * 7 * 11
\* analyzer.volatility in hundredths (0 = not yet computed)
Volatilities == {0, 10}
\* KRW balance reported by the exchange
KrwBalances == {0, 2000000}

Variants == {"momentum_trader", "trader"}
Markets == {"KRW-A", "KRW-B"}
\* market lists the bot may be started with
MarketLists == {<<"KRW-A">>, <<"KRW-A", "KRW-B">>}

NoTime == -1
NoPosition == [side |-> "none", price |-> 0, amount |-> 0, volume |-> 0]

Max(a, b) == IF a >= b THEN a ELSE b
Min(a, b) == IF a <= b THEN a ELSE b

VARIABLES
    variant,        \* which program runs
    DRY_RUN,        \* configuration switch
    markets,        \* self.markets, in iteration order
    states,         \* self.states: market -> TradingState
    current_prices, \* self.current_prices: market -> price, 0 = no entry
    krw_balance,    \* self.assets['KRW']['balance']
    market_safe,    \* self.market_safe
    btc_trend,      \* self.btc_trend
    cumulative,     \* cumulative_profit / _trades / _wins / _losses
    now,            \* wall clock (datetime.now())
    loop,           \* the _trading_loop task: where it is suspended
    cmd,            \* the _check_commands task: where it is suspended
    orders,         \* the order request the last step sent to the exchange
    trace,          \* what the last decision step invoked
    minute_candles, \* analyzer.minute_candles of one market
    second_candles, \* analyzer.second_candles of the same market
    disk,           \* the market's 1-minute CSV file
    candle_time,    \* open time of the candle the exchange is forming
    listed,         \* the market is in self.markets
    tracked,        \* the timeframe whose ring is followed
    last_update,    \* the last change made to a ring and its input
    managed,        \* a TradingState the position manager is run on
    ticks,          \* the prices of the manager's ticks on it so far
    momentum,       \* the entry analysis made, what it read and its result
    macro,          \* the macro analysis made, what it read, its result and
                    \* how the entry search that followed it ended
    request,        \* the REST call under way or last made
    indicators,     \* the price history last read for the RSI, and rsi_value
    limits,         \* the TradingState can_trade was last called on, when, and
                    \* what it returned
    roster,         \* self.markets as a set, who holds a position, and where
                    \* _trading_loop and _update_top_markets are suspended
    running,        \* self.running
    tasks           \* where each task of start's gather is: at its "while
                    \* self.running", inside the loop, or returned

\* type of the candle messages of a timeframe
Timeframes == {"candle.1m", "candle.1s"}

\* the analyzer's candle data and what feeds it
candle_vars == <<minute_candles, second_candles, disk, candle_time, listed, tracked,
                 last_update>>

\* the position manager taken alone
manager_vars == <<managed, ticks>>

\* the analyses taken alone
analysis_vars == <<momentum, macro, indicators>>

\* the REST client, the trade limits and the tasks taken alone
service_vars == <<request, limits, running, tasks, roster>>

vars == <<variant, DRY_RUN, markets, states, current_prices, krw_balance, market_safe,
          btc_trend, cumulative, now, loop, cmd, orders, trace, candle_vars, manager_vars,
          analysis_vars, service_vars>>

\* BTC_DOWNTREND_BUY_BLOCK: False in momentum_trader.py, True in config.py
BTC_DOWNTREND_BUY_BLOCK == (variant = "trader")

\* ------------------------------------------------------------------------
\* TradingState
\* ------------------------------------------------------------------------
TradingStateInit ==
    [position |-> NoPosition,
     entry_price |-> 0,
     entry_time |-> NoTime,
     highest_price |-> 0,
     stop_loss_price |-> 0,
     take_profit_price |-> 0,
     trailing_active |-> FALSE,
     processing_order |-> FALSE,
     trades_today |-> <<>>,
     last_trade_time |-> NoTime,
     last_loss_time |-> NoTime,
     consecutive_losses |-> 0,
     last_exit_price |-> 0]

has_position(st) == st.position # NoPosition

\* can_trade without the longer wait after consecutive losses
can_trade_one_cooldown(st, t) ==
    LET hour_ago == t - HOUR
        ts == st.trades_today
        recent_trades == {i \in 1..Len(ts) : ts[i].time > hour_ago}
        recent_losses == {i \in 1..Len(ts) : ts[i].time > hour_ago /\ ts[i].type = "stop_loss"}
    IN  /\ Cardinality(recent_trades) < MAX_TRADES_PER_HOUR
        /\ (st.last_trade_time # NoTime => t - st.last_trade_time >= TRADE_COOLDOWN)
        /\ (st.last_loss_time # NoTime => t >= st.last_loss_time + COOL_DOWN_AFTER_LOSS)
        /\ Cardinality(recent_losses) < RECENT_LOSS_LIMIT

can_trade(st, t) ==
    LET hour_ago == t - HOUR
        ts == st.trades_today
        recent_trades == {i \in 1..Len(ts) : ts[i].time > hour_ago}
        recent_losses == {i \in 1..Len(ts) : ts[i].time > hour_ago /\ ts[i].type = "stop_loss"}
        recent_loss_count == Cardinality(recent_losses)
    IN  /\ Cardinality(recent_trades) < MAX_TRADES_PER_HOUR
        /\ (st.last_trade_time # NoTime => t - st.last_trade_time >= TRADE_COOLDOWN)
        /\ (st.last_loss_time # NoTime =>
               /\ t >= st.last_loss_time + COOL_DOWN_AFTER_LOSS
               /\ (st.consecutive_losses >= 2 =>
                      t >= st.last_loss_time + CONSECUTIVE_LOSS_COOLDOWN))
        /\ recent_loss_count < RECENT_LOSS_LIMIT

ExitTypes == {"take_profit", "trailing_stop", "time_exit"}

record_trade(st, trade_type, price, profit, t) ==
    LET trade == [time |-> t, type |-> trade_type, price |-> price, profit |-> profit]
        s1 == [st EXCEPT !.trades_today = Append(@, trade),
                         !.last_trade_time = t]
        s2 == IF trade_type \in ExitTypes
              THEN [s1 EXCEPT !.consecutive_losses =
                                   IF profit > 0 THEN 0 ELSE @ + 1,
                              !.last_exit_price = price]
              ELSE s1
    IN  IF trade_type = "stop_loss"
        THEN [s2 EXCEPT !.last_loss_time = t,
                        !.consecutive_losses = @ + 1,
                        !.last_exit_price = price]
        ELSE s2

\* ------------------------------------------------------------------------
\* Position arithmetic
\* ------------------------------------------------------------------------
\* a price given in tenths, in units of 1/10000: Price(1006) is 100.6
Price(tenths) == tenths * Per

\* profit_rate is a binary64 quotient.  Where the decimal quotient equals
\* the threshold the rounding decides; these are the (current, entry)
\* pairs among the prices used here whose quotient comes out below it:
\* (100.6 - 100.0) / 100.0 = 0.005999999999999943 < 0.006 and
\* (100.8 - 100.0) / 100.0 = 0.007999999999999972 < 0.008
RoundedBelow == {<<Price(1006), Price(1000)>>, <<Price(1008), Price(1000)>>}

\* the quotient taken as exact
profit_rate_exact(current, entry, k) == (current - entry) * Per >= k * entry

\* profit_rate >= k per mille, without dividing
ProfitRateAtLeast(current, entry, k) ==
    IF (current - entry) * Per = k * entry
    THEN <<current, entry>> \notin RoundedBelow
    ELSE (current - entry) * Per >= k * entry

\* price * (1 + k/1000)
Scaled(price, k) == (price * (Per + k)) \div Per

\* invest_amount = min(MAX_INVESTMENT, krw_balance * 0.99), in won
invest_amount(balance) == Min(MAX_INVESTMENT * 100, balance * 99) \div 100

\* dynamic stop rate (per mille) from analyzer.volatility (hundredths)
dynamic_stop_loss_rate(vol) ==
    IF vol > 0
    THEN LET volatility_factor == Min(vol, 10)   \* tenths of min(vol * 10, 1.0)
             dynamic_stop == DYNAMIC_STOP_LOSS_MIN
                  + ((DYNAMIC_STOP_LOSS_MAX - DYNAMIC_STOP_LOSS_MIN) * volatility_factor) \div 10
         IN  Max(DYNAMIC_STOP_LOSS_MIN, Min(dynamic_stop, DYNAMIC_STOP_LOSS_MAX))
    ELSE INITIAL_STOP_LOSS

NewPosition(price, amount) ==
    [side |-> "bid", price |-> price, amount |-> amount, volume |-> amount \div price]

\* _execute_buy from "state.position = {...}" to the finally clause
\* momentum_trader.py: dynamic stop, trailing reset
EnteredMT(st, price, amount, vol, t) ==
    LET s1 == [st EXCEPT !.position = NewPosition(price, amount),
                         !.entry_price = price,
                         !.entry_time = t,
                         !.highest_price = price,
                         !.stop_loss_price = Scaled(price, 0 - dynamic_stop_loss_rate(vol)),
                         !.take_profit_price = Scaled(price, TAKE_PROFIT_TARGET),
                         !.trailing_active = FALSE]
    IN  [record_trade(s1, "buy", price, 0, t) EXCEPT !.processing_order = FALSE]

\* trader.py: fixed initial stop, trailing_active left as it is
EnteredTR(st, price, amount, t) ==
    LET s1 == [st EXCEPT !.position = NewPosition(price, amount),
                         !.entry_price = price,
                         !.entry_time = t,
                         !.highest_price = price,
                         !.stop_loss_price = Scaled(price, 0 - INITIAL_STOP_LOSS),
                         !.take_profit_price = Scaled(price, TAKE_PROFIT_TARGET)]
    IN  [record_trade(s1, "buy", price, 0, t) EXCEPT !.processing_order = FALSE]

Entered(st, price, amount, vol, t) ==
    IF variant = "momentum_trader"
    THEN EnteredMT(st, price, amount, vol, t)
    ELSE EnteredTR(st, price, amount, t)

\* a bug the trailing update could have: the stop follows the current price
trailing_stop_from_current(st, current) ==
    Max(Scaled(current, 0 - TRAILING_STOP_DISTANCE),
        Scaled(st.entry_price, TRAILING_MIN_PROFIT))

\* the trailing update of _manage_position (momentum_trader.py): the stop
\* trails the highest price, never below the minimum-profit floor, and
\* only moves up
trailing_stop(st, current) ==
    LET new_stop == Max(Scaled(st.highest_price, 0 - TRAILING_STOP_DISTANCE),
                        Scaled(st.entry_price, TRAILING_MIN_PROFIT))
    IN  IF new_stop > st.stop_loss_price THEN new_stop ELSE st.stop_loss_price

\* _manage_position up to the sell decision: the new state and sell_reason
\* ("" = hold).  momentum_trader.py
ManageMT(st, current, t) ==
    LET entry == st.entry_price
        min_profit_price == Scaled(entry, TRAILING_MIN_PROFIT)
        newhigh == current > st.highest_price
        s1 == IF newhigh THEN [st EXCEPT !.highest_price = current] ELSE st
        s2 == IF newhigh /\ ProfitRateAtLeast(current, entry, BREAK_EVEN_TRIGGER)
                         /\ s1.stop_loss_price < entry
              THEN [s1 EXCEPT !.stop_loss_price = entry] ELSE s1
        s3 == IF newhigh /\ ProfitRateAtLeast(current, entry, TRAILING_STOP_ACTIVATION)
                         /\ ~s2.trailing_active
              THEN [s2 EXCEPT !.trailing_active = TRUE,
                              !.stop_loss_price = Max(@, min_profit_price)]
              ELSE s2
        s4 == IF s3.trailing_active
              THEN [s3 EXCEPT !.stop_loss_price = trailing_stop(s3, current)] ELSE s3
    IN  IF current <= s4.stop_loss_price
        THEN [st |-> s4,
              sell_reason |-> IF s4.trailing_active THEN "trailing_stop" ELSE "stop_loss"]
        ELSE IF current >= s4.take_profit_price
        THEN [st |-> IF ~s4.trailing_active
                     THEN [s4 EXCEPT !.trailing_active = TRUE,
                                     !.stop_loss_price = Max(entry, min_profit_price)]
                     ELSE s4,
              sell_reason |-> ""]
        ELSE IF s4.entry_time # NoTime /\ t - s4.entry_time >= MAX_HOLDING_TIME
        THEN [st |-> s4, sell_reason |-> "time_exit"]
        ELSE [st |-> s4, sell_reason |-> ""]

\* trader.py
ManageTR(st, current) ==
    LET entry == st.entry_price
        s1 == [st EXCEPT !.highest_price = Max(@, current)]
        s2 == IF ProfitRateAtLeast(current, entry, TRAILING_STOP_ACTIVATION)
                 /\ ~s1.trailing_active
              THEN [s1 EXCEPT !.trailing_active = TRUE,
                              !.stop_loss_price = Max(@, Scaled(entry, TRAILING_MIN_PROFIT))]
              ELSE s1
        new_stop == Scaled(s2.highest_price, 0 - TRAILING_STOP_DISTANCE)
        s3 == IF s2.trailing_active
              THEN [s2 EXCEPT !.stop_loss_price = Max(@, new_stop)] ELSE s2
    IN  IF current <= s3.stop_loss_price
        THEN [st |-> s3, sell_reason |-> "stop_loss"]
        ELSE IF current >= s3.take_profit_price /\ ~s3.trailing_active
        THEN [st |-> [s3 EXCEPT !.trailing_active = TRUE,
                                !.stop_loss_price = Max(entry, Scaled(entry, TRAILING_MIN_PROFIT))],
              sell_reason |-> ""]
        ELSE [st |-> s3, sell_reason |-> ""]

manage_position(st, current, t) ==
    IF variant = "momentum_trader" THEN ManageMT(st, current, t) ELSE ManageTR(st, current)

\* _execute_sell from the profit calculation on
sell_profit(position, volume, executed_price) ==
    LET buy_amount == position.amount
        sell_amount == volume * executed_price
        fee == (buy_amount + sell_amount) \div TRADING_FEE_DIV
    IN  IF variant = "momentum_trader"
        THEN sell_amount - buy_amount - fee
        ELSE sell_amount - buy_amount

Sold(st, volume, executed_price, reason, t) ==
    LET profit == sell_profit(st.position, volume, executed_price)
    IN  [record_trade(st, reason, executed_price, profit, t)
            EXCEPT !.position = NoPosition, !.trailing_active = FALSE]

CumulativeAfter(c, profit) ==
    [profit |-> c.profit + profit,
     trades |-> c.trades + 1,
     wins |-> IF profit >= 0 THEN c.wins + 1 ELSE c.wins,
     losses |-> IF profit >= 0 THEN c.losses ELSE c.losses + 1]

\* ------------------------------------------------------------------------
\* Tasks
\* ------------------------------------------------------------------------
\* fixed once the bot runs
config == <<variant, DRY_RUN, markets>>

\* outcome of an order request
OrderOutcomes == {"ok", "error"}
\* coin balance get_accounts reports before a sell: 0 = none or the call
\* failed (the tracked volume is used), 1 = a remainder too small to sell
ActualBalances == {0, 1}
\* /stoploss price arguments
CommandPrices == {210 * Per, 225 * Per}
\* the market the user names in commands
CommandMarkets == {"KRW-A"}
\* prices the ticker reports for a market
MarketPrices(m) == IF m = "KRW-A" THEN Prices ELSE {220 * Per}

\* the position the manager is run on alone: bought at 100.0 with
\* analyzer.volatility 0, so that the stop is 98.0
ScenarioEntry == Price(1000)
ScenarioAmount == invest_amount(2000000) * MoneyScale
\* prices of its ticks
ManagerPrices == {Price(t) : t \in {1006, 1007, 1008, 1012, 1015, 1018}}
\* ticks followed on one position
MaxTicks == 5
\* instants the clock is read at while the position is held: the last second
\* before the holding time is up, and the second it is up
HoldingTimes == {MAX_HOLDING_TIME - 1, MAX_HOLDING_TIME}

LoopIdle ==
    [pc |-> "sleep", idx |-> 0, safe |-> TRUE, price |-> 0, amount |-> 0,
     volume |-> 0, reason |-> "", fill |-> "none"]

CmdIdle == [pc |-> "idle", market |-> "", price |-> 0, volume |-> 0]

TraceNone ==
    [op |-> "none", market |-> "", had_position |-> FALSE, market_safe |-> TRUE,
     can_trade |-> FALSE, result |-> "", fill |-> "none"]

\* what a decision step records of the call it makes
Dispatch(op, m, result) ==
    [op |-> op, market |-> m, had_position |-> has_position(states[m]),
     market_safe |-> market_safe, can_trade |-> can_trade(states[m], now),
     result |-> result, fill |-> "none"]

NoOrder == [market |-> "", side |-> "none"]
Order(m, side) == [market |-> m, side |-> side]

\* the loop goes on to the next market of the tick
LoopNext == [LoopIdle EXCEPT !.pc = "scan", !.idx = loop.idx + 1, !.safe = loop.safe]

\* the result of detect_combined_momentum when nothing fired
NoSignal ==
    [signal |-> FALSE, strength |-> 0, mtf_blocked |-> FALSE, reasons |-> {},
     raised |-> FALSE]
\* no entry analysis made yet
NoMomentum ==
    [analysed |-> FALSE,
     minute |-> [signal |-> FALSE, strength |-> 0, price_change |-> 0],
     fired |-> FALSE,
     mtf |-> [valid_entry |-> TRUE, stage |-> "unknown", trend_5m |-> "neutral",
              trend_15m |-> "neutral", volume_confirmed |-> FALSE, warnings |-> {}],
     input |-> [macro_bearish |-> FALSE, m5_count |-> 0, change_5m |-> 0,
                last_momentum |-> 0, prev_momentum |-> 0, ma_downtrend |-> FALSE,
                three_down |-> FALSE, volume_ok |-> FALSE, trend_15m |-> "neutral",
                sell_wall |-> FALSE, strong_buying |-> FALSE],
     result |-> NoSignal]

\* no macro analysis made yet ("self.macro_result = None")
NoMacro == [analysed |-> FALSE, entry |-> "none", momentum |-> NoSignal]

\* no REST call made yet
NoRequest ==
    [calls |-> 0, method |-> "", attempt |-> 0, responses |-> <<>>, waits |-> <<>>,
     result |-> "none", before |-> "none"]

NoLimits ==
    [checked |-> FALSE, st |-> TradingStateInit, t |-> 0, result |-> FALSE, price |-> 0,
     entry |-> "none"]

\* start(): the first _update_top_markets has run, no position is open
NoRoster ==
    [markets |-> {"KRW-A"}, position |-> [m \in Markets |-> "none"], pc |-> "sleep",
     scan |-> {}, buying |-> "", new_markets |-> {}, pending |-> FALSE,
     step |-> "start"]

\* the coroutines start hands to asyncio.gather
StreamLoops == {"_public_ws_monitor", "_private_ws_monitor"}
\* "while self.running: await asyncio.sleep(...)" and then the work
SleepFirstLoops == {"_macro_update_loop", "_balance_report_loop", "_btc_monitor_loop"}
\* the work and then the sleep
WorkFirstLoops == {"_trading_loop", "_market_update_loop"}
Loops == StreamLoops \cup SleepFirstLoops \cup WorkFirstLoops \cup {"_check_commands"}

Init ==
    /\ variant \in Variants
    /\ DRY_RUN \in BOOLEAN
    /\ markets \in MarketLists
    /\ states = [m \in Markets |-> TradingStateInit]
    /\ current_prices = [m \in Markets |-> 0]
    /\ krw_balance = 0
    /\ market_safe = TRUE
    /\ btc_trend = "neutral"
    /\ cumulative = [profit |-> 0, trades |-> 0, wins |-> 0, losses |-> 0]
    /\ now = 0
    /\ loop = LoopIdle
    /\ cmd = CmdIdle
    /\ orders = NoOrder
    /\ trace = TraceNone
    /\ minute_candles = <<>>
    /\ second_candles = <<>>
    /\ disk = <<>>
    /\ candle_time = 1
    /\ listed = FALSE
    /\ tracked \in Timeframes
    /\ last_update = [op |-> "none", candles |-> <<>>]
    /\ managed = Entered(TradingStateInit, ScenarioEntry, ScenarioAmount, 0, 0)
    /\ ticks = <<>>
    /\ momentum = NoMomentum
    /\ macro = NoMacro
    /\ request = NoRequest
    /\ limits = NoLimits
    /\ roster = NoRoster
    /\ running = TRUE
    /\ tasks = [l \in Loops |-> "check"]
    /\ indicators = [updated |-> FALSE, prices |-> <<>>, rsi_value |-> 50 * Per]

\* _trading_loop: "while self.running: if not self.market_safe"
TickStart ==
    /\ loop.pc = "sleep"
    /\ loop' = [LoopIdle EXCEPT !.pc = "scan", !.idx = 1, !.safe = market_safe]
    /\ orders' = NoOrder
    /\ UNCHANGED <<config, candle_vars, manager_vars, analysis_vars, service_vars, states, current_prices, krw_balance, market_safe,
                   btc_trend, cumulative, now, cmd, trace>>

\* _trading_loop: the status log after the markets, then asyncio.sleep(1)
TickEnd ==
    /\ loop.pc = "scan"
    /\ loop.idx > Len(markets)
    /\ loop' = LoopIdle
    /\ trace' = TraceNone
    /\ orders' = NoOrder
    /\ UNCHANGED <<config, candle_vars, manager_vars, analysis_vars, service_vars, states, current_prices, krw_balance, market_safe,
                   btc_trend, cumulative, now, cmd>>

AtMarket(m) == loop.pc = "scan" /\ loop.idx <= Len(markets) /\ markets[loop.idx] = m

\* a bug the loop could have: the position is not looked at
dispatch_any(st, price, safe) ==
    IF safe /\ price > 0 THEN "find_entry" ELSE "skip"

\* _trading_loop: what a tick does with one market.  `safe' is market_safe
\* as the tick read it
dispatch(st, price, safe) ==
    IF ~safe
    THEN IF has_position(st) THEN "manage" ELSE "skip"
    ELSE IF price <= 0 THEN "skip"
    ELSE IF has_position(st) THEN "manage"
    ELSE "find_entry"

\* _trading_loop: a market the tick passes over
Skip(m) ==
    /\ AtMarket(m)
    /\ dispatch(states[m], current_prices[m], loop.safe) = "skip"
    /\ trace' = Dispatch("skip", m, "")
    /\ loop' = LoopNext
    /\ orders' = NoOrder
    /\ UNCHANGED <<config, candle_vars, manager_vars, analysis_vars, service_vars, states, current_prices, krw_balance, market_safe,
                   btc_trend, cumulative, now, cmd>>

\* volume _execute_sell offers: the exchange balance when it reports one
sell_volume(position, actual_balance) ==
    IF variant = "momentum_trader" /\ actual_balance > 0
    THEN actual_balance
    ELSE position.volume

Unchanged(st, result) ==
    [st |-> st, closed |-> FALSE, profit |-> 0, emitted |-> FALSE, wait |-> FALSE,
     volume |-> 0, result |-> result]

\* a bug _execute_sell could have: DRY_RUN is not consulted
execute_sell_live(st, price, reason, actual_balance, outcome, t) ==
    IF ~has_position(st) THEN Unchanged(st, "no_position")
    ELSE IF outcome = "error" THEN Unchanged(st, "order_failed")
    ELSE [st |-> st, closed |-> FALSE, profit |-> 0, emitted |-> TRUE, wait |-> TRUE,
          volume |-> st.position.volume, result |-> "placed"]

\* _execute_sell on state st, from its call to its first await or its return
execute_sell(st, price, reason, actual_balance, outcome, t) ==
    LET volume == sell_volume(st.position, actual_balance)
    IN  IF ~has_position(st) THEN Unchanged(st, "no_position")
        ELSE IF DRY_RUN
        THEN [st |-> Sold(st, st.position.volume, price, reason, t),
              closed |-> TRUE,
              profit |-> sell_profit(st.position, st.position.volume, price),
              emitted |-> FALSE, wait |-> FALSE, volume |-> st.position.volume,
              result |-> "sold"]
        ELSE IF variant = "momentum_trader"
                /\ (volume * price < MIN_SELL_VALUE * MoneyScale \/ volume <= 0)
        THEN Unchanged([st EXCEPT !.position = NoPosition, !.trailing_active = FALSE], "dust")
        ELSE IF outcome = "error" THEN Unchanged(st, "order_failed")
        ELSE [st |-> st, closed |-> FALSE, profit |-> 0, emitted |-> TRUE, wait |-> TRUE,
              volume |-> volume, result |-> "placed"]

\* _execute_sell after its sleep: the position may be gone by then, and the
\* subscript of None is caught by the handler
sell_resume(st, volume, price, reason, t) ==
    IF ~has_position(st) THEN Unchanged(st, "sell_error")
    ELSE [st |-> Sold(st, volume, price, reason, t),
          closed |-> TRUE,
          profit |-> sell_profit(st.position, volume, price),
          emitted |-> FALSE, wait |-> FALSE, volume |-> volume, result |-> "sold"]

\* the part of a sell outcome that lands in states, cumulative and orders
ApplySell(m, b) ==
    /\ states' = [states EXCEPT ![m] = b.st]
    /\ cumulative' = IF b.closed THEN CumulativeAfter(cumulative, b.profit) ELSE cumulative
    /\ orders' = IF b.emitted THEN Order(m, "ask") ELSE NoOrder

\* _trading_loop -> _manage_position(m) (-> _execute_sell)
Manage(m) ==
    /\ AtMarket(m)
    /\ dispatch(states[m], current_prices[m], loop.safe) = "manage"
    /\ \E actual_balance \in ActualBalances, outcome \in OrderOutcomes :
          LET r == manage_position(states[m], current_prices[m], now)
              b == IF r.sell_reason = ""
                   THEN Unchanged(r.st, "hold")
                   ELSE execute_sell(r.st, current_prices[m], r.sell_reason,
                                     actual_balance, outcome, now)
          IN  /\ ApplySell(m, b)
              /\ loop' = IF b.wait
                         THEN [loop EXCEPT !.pc = "sell_wait", !.price = current_prices[m],
                                           !.volume = b.volume, !.reason = r.sell_reason]
                         ELSE LoopNext
              /\ trace' = Dispatch("manage", m, b.result)
    /\ UNCHANGED <<config, candle_vars, manager_vars, analysis_vars, service_vars, current_prices, krw_balance, market_safe, btc_trend, now, cmd>>

\* the loop's _execute_sell resumes after asyncio.sleep
SellResume ==
    /\ loop.pc = "sell_wait"
    /\ LET m == markets[loop.idx]
           b == sell_resume(states[m], loop.volume, loop.price, loop.reason, now)
       IN  /\ ApplySell(m, b)
           /\ trace' = [trace EXCEPT !.result = b.result]
    /\ loop' = LoopNext
    /\ UNCHANGED <<config, candle_vars, manager_vars, analysis_vars, service_vars, current_prices, krw_balance, market_safe, btc_trend, now, cmd>>

\* a bug _execute_buy could have: the order is sent before the balance is
\* looked at
execute_buy_check_late(st, price, balance, vol, outcome, t) ==
    LET amount == invest_amount(balance) * MoneyScale
    IN  IF st.processing_order \/ has_position(st) THEN Unchanged(st, "busy")
        ELSE IF DRY_RUN /\ invest_amount(balance) < MIN_ORDER_AMOUNT
        THEN Unchanged(st, "insufficient")
        ELSE IF DRY_RUN THEN Unchanged(Entered(st, price, amount, vol, t), "entered")
        ELSE IF outcome = "error" THEN Unchanged(st, "order_failed")
        ELSE IF invest_amount(balance) < MIN_ORDER_AMOUNT
        THEN [st |-> st, closed |-> FALSE, profit |-> 0, emitted |-> TRUE, wait |-> FALSE,
              volume |-> 0, result |-> "insufficient"]
        ELSE [st |-> [st EXCEPT !.processing_order = TRUE],
              closed |-> FALSE, profit |-> 0, emitted |-> TRUE, wait |-> TRUE,
              volume |-> amount, result |-> "placed"]

\* a bug _execute_buy could have: no finally clause, so a failed order
\* leaves processing_order set
execute_buy_no_finally(st, price, balance, vol, outcome, t) ==
    LET amount == invest_amount(balance) * MoneyScale
    IN  IF st.processing_order \/ has_position(st) THEN Unchanged(st, "busy")
        ELSE IF invest_amount(balance) < MIN_ORDER_AMOUNT THEN Unchanged(st, "insufficient")
        ELSE IF DRY_RUN THEN Unchanged(Entered(st, price, amount, vol, t), "entered")
        ELSE IF outcome = "error"
        THEN Unchanged([st EXCEPT !.processing_order = TRUE], "order_failed")
        ELSE [st |-> [st EXCEPT !.processing_order = TRUE],
              closed |-> FALSE, profit |-> 0, emitted |-> TRUE, wait |-> TRUE,
              volume |-> amount, result |-> "placed"]

\* _execute_buy on state st, from its call to its first await or its return
execute_buy(st, price, balance, vol, outcome, t) ==
    LET amount == invest_amount(balance) * MoneyScale
    IN  IF st.processing_order \/ has_position(st) THEN Unchanged(st, "busy")
        ELSE IF invest_amount(balance) < MIN_ORDER_AMOUNT THEN Unchanged(st, "insufficient")
        ELSE IF DRY_RUN THEN Unchanged(Entered(st, price, amount, vol, t), "entered")
        ELSE IF outcome = "error" THEN Unchanged(st, "order_failed")
        ELSE [st |-> [st EXCEPT !.processing_order = TRUE],
              closed |-> FALSE, profit |-> 0, emitted |-> TRUE, wait |-> TRUE,
              volume |-> amount, result |-> "placed"]

\* re-entry guard of _find_entry
reentry_wait(st, price) ==
    /\ st.last_exit_price > 0
    /\ st.consecutive_losses > 0
    /\ price * Per > st.last_exit_price * REENTRY_FACTOR

\* what the analysis in _find_entry comes to: no entry signal, an entry
\* signal, or an exception (a candle with opening_price 0, say)
AnalysisOutcomes == {"none", "signal", "raise"}

\* an exception in the analysis of _find_entry: momentum_trader.py catches
\* it in _find_entry; trader.py has no handler there, so it reaches the
\* handler of _trading_loop, which ends the tick and sleeps
find_entry_failure == IF variant = "momentum_trader" THEN "find_error" ELSE "raised"

\* _trading_loop -> _find_entry(m) (-> _execute_buy).  `signal' is the
\* outcome of the analysis, vol the analyzer's volatility
FindEntry(m) ==
    /\ AtMarket(m)
    /\ dispatch(states[m], current_prices[m], loop.safe) = "find_entry"
    /\ \E signal \in AnalysisOutcomes, vol \in Volatilities, outcome \in OrderOutcomes :
          /\ signal = "signal" => Len(states[m].trades_today) < MaxTrades
          /\ LET st == states[m]
                 b == IF ~can_trade(st, now) THEN Unchanged(st, "no_trade")
                      ELSE IF reentry_wait(st, current_prices[m])
                      THEN Unchanged(st, "reentry_wait")
                      ELSE IF signal = "raise" THEN Unchanged(st, find_entry_failure)
                      ELSE IF signal = "none" THEN Unchanged(st, "no_signal")
                      ELSE execute_buy(st, current_prices[m], krw_balance, vol, outcome, now)
             IN  /\ states' = [states EXCEPT ![m] = b.st]
                 /\ orders' = IF b.emitted THEN Order(m, "bid") ELSE NoOrder
                 /\ loop' = IF b.wait
                            THEN [loop EXCEPT !.pc = "buy_wait", !.price = current_prices[m],
                                              !.amount = b.volume, !.fill = "wait"]
                            ELSE IF b.result = "raised" THEN LoopIdle
                            ELSE LoopNext
                 /\ trace' = Dispatch("find_entry", m, b.result)
    /\ UNCHANGED <<config, candle_vars, manager_vars, analysis_vars, service_vars, current_prices, krw_balance, market_safe,
                   btc_trend, cumulative, now, cmd>>

\* _execute_buy resumes after asyncio.sleep: the position is set whatever
\* became of the order.  momentum_trader.py uses the price read before the
\* order, trader.py the price at this moment
BuyResume ==
    /\ loop.pc = "buy_wait"
    /\ \E vol \in Volatilities :
          LET m == markets[loop.idx]
              price == IF variant = "momentum_trader" THEN loop.price ELSE current_prices[m]
          IN  states' = [states EXCEPT ![m] = Entered(@, price, loop.amount, vol, now)]
    /\ trace' = [trace EXCEPT !.result = "entered", !.fill = loop.fill]
    /\ loop' = LoopNext
    /\ orders' = NoOrder
    /\ UNCHANGED <<config, candle_vars, manager_vars, analysis_vars, service_vars, current_prices, krw_balance, market_safe,
                   btc_trend, cumulative, now, cmd>>

\* _private_ws_monitor: a myOrder message about the order in flight
MyOrder(state) ==
    /\ loop.pc = "buy_wait"
    /\ loop.fill = "wait"
    /\ loop' = [loop EXCEPT !.fill = state]
    /\ orders' = NoOrder
    /\ UNCHANGED <<config, candle_vars, manager_vars, analysis_vars, service_vars, states, current_prices, krw_balance, market_safe,
                   btc_trend, cumulative, now, cmd, trace>>

\* _private_ws_monitor: a myAsset message
MyAsset(balance) ==
    /\ loop.pc # "scan"
    /\ krw_balance # balance
    /\ krw_balance' = balance
    /\ orders' = NoOrder
    /\ UNCHANGED <<config, candle_vars, manager_vars, analysis_vars, service_vars, states, current_prices, market_safe,
                   btc_trend, cumulative, now, loop, cmd, trace>>

\* _public_ws_monitor: a ticker / trade message
PriceUpdate(m, price) ==
    /\ loop.pc # "scan"
    /\ current_prices[m] # price
    /\ current_prices' = [current_prices EXCEPT ![m] = price]
    /\ orders' = NoOrder
    /\ UNCHANGED <<config, candle_vars, manager_vars, analysis_vars, service_vars, states, krw_balance, market_safe,
                   btc_trend, cumulative, now, loop, cmd, trace>>

\* time passes
AdvanceClock(t) ==
    /\ loop.pc # "scan"
    /\ t > now
    /\ now' = t
    /\ orders' = NoOrder
    /\ UNCHANGED <<config, candle_vars, manager_vars, analysis_vars, service_vars, states, current_prices, krw_balance, market_safe,
                   btc_trend, cumulative, loop, cmd, trace>>

\* _check_btc_trend.  "short": fewer than two candles; "error": the request raised
BtcOutcomes == {"bearish", "neutral", "short", "error"}

CheckBtcTrend(outcome) ==
    /\ loop.pc # "scan"
    /\ btc_trend' = IF outcome \in {"short", "error"} THEN btc_trend ELSE outcome
    /\ market_safe' = IF outcome = "short" THEN market_safe
                      ELSE IF outcome = "bearish" THEN ~BTC_DOWNTREND_BUY_BLOCK
                      ELSE TRUE
    /\ orders' = NoOrder
    /\ UNCHANGED <<config, candle_vars, manager_vars, analysis_vars, service_vars, states, current_prices, krw_balance,
                   cumulative, now, loop, cmd, trace>>

\* ------------------------------------------------------------------------
\* process_user_command
\* ------------------------------------------------------------------------
CanCommand == cmd.pc = "idle" /\ loop.pc # "scan"

\* "/buy <coin> <amount>".  trader.py: a simulated position in DRY_RUN, an
\* order otherwise.  momentum_trader.py: DRY_RUN touches two attributes
\* nothing reads, and the live branch calls a method UpbitAPI does not have
UserBuy(m) ==
    /\ CanCommand
    /\ Len(states[m].trades_today) < MaxTrades
    /\ \E outcome \in OrderOutcomes :
         IF variant = "trader" /\ DRY_RUN /\ current_prices[m] > 0
         THEN /\ states' = [states EXCEPT ![m] =
                     [@ EXCEPT !.position = NewPosition(current_prices[m],
                                                        MAX_INVESTMENT * MoneyScale),
                               !.entry_price = current_prices[m],
                               !.entry_time = now,
                               !.highest_price = current_prices[m],
                               !.stop_loss_price = Scaled(current_prices[m], 0 - INITIAL_STOP_LOSS),
                               !.take_profit_price = Scaled(current_prices[m], TAKE_PROFIT_TARGET)]]
              /\ orders' = NoOrder
         ELSE IF variant = "trader" /\ ~DRY_RUN /\ outcome = "ok"
         THEN /\ orders' = Order(m, "bid")
              /\ UNCHANGED states
         ELSE /\ orders' = NoOrder
              /\ UNCHANGED states
    /\ UNCHANGED <<config, candle_vars, manager_vars, analysis_vars, service_vars, current_prices, krw_balance, market_safe,
                   btc_trend, cumulative, now, loop, cmd, trace>>

\* "/sell <coin>".  trader.py: drops the position in DRY_RUN, calls
\* _execute_sell otherwise.  momentum_trader.py reads self.balances, which
\* is never assigned: the handler ends in its except clause
UserSell(m) ==
    /\ CanCommand
    /\ \E outcome \in OrderOutcomes :
         IF variant = "trader" /\ DRY_RUN
         THEN /\ states' = [states EXCEPT ![m].position = NoPosition]
              /\ orders' = NoOrder
              /\ UNCHANGED <<cumulative, cmd>>
         ELSE IF variant = "trader"
         THEN LET b == execute_sell(states[m], current_prices[m], "manual", 0, outcome, now)
              IN  /\ ApplySell(m, b)
                  /\ cmd' = IF b.wait
                            THEN [pc |-> "sell_wait", market |-> m,
                                  price |-> current_prices[m], volume |-> b.volume]
                            ELSE cmd
         ELSE /\ orders' = NoOrder
              /\ UNCHANGED <<states, cumulative, cmd>>
    /\ UNCHANGED <<config, candle_vars, manager_vars, analysis_vars, service_vars, current_prices, krw_balance, market_safe,
                   btc_trend, now, loop, trace>>

\* the command task's _execute_sell resumes after asyncio.sleep
CmdSellResume ==
    /\ cmd.pc = "sell_wait"
    /\ loop.pc # "scan"
    /\ ApplySell(cmd.market,
                 sell_resume(states[cmd.market], cmd.volume, cmd.price, "manual", now))
    /\ cmd' = CmdIdle
    /\ UNCHANGED <<config, candle_vars, manager_vars, analysis_vars, service_vars, current_prices, krw_balance, market_safe,
                   btc_trend, now, loop, trace>>

\* "/stoploss <coin> <price>" (momentum_trader.py only)
UserStopLoss(m, price) ==
    /\ CanCommand
    /\ variant = "momentum_trader"
    /\ states' = [states EXCEPT ![m].stop_loss_price = price,
                                ![m].trailing_active = FALSE]
    /\ orders' = NoOrder
    /\ UNCHANGED <<config, candle_vars, manager_vars, analysis_vars, service_vars, current_prices, krw_balance, market_safe,
                   btc_trend, cumulative, now, loop, cmd, trace>>

\* ------------------------------------------------------------------------
\* Candle rings (MarketAnalyzer)
\* ------------------------------------------------------------------------
\* deque(maxlen=...) of a ring: 200 one-minute candles, which is also one
\* page of the REST API, and 120 one-second candles, which is also the
\* count the bot asks for; scaled to a few candles
RingCap == 3
\* "gap_count = int(diff_minutes / unit) + 2"
GAP_MARGIN == 2
\* open times of the candles of the exchange, in candle periods since the
\* market was listed there
CandleTimes == 1 .. 4
\* trade_price of a candle
TradePrices == {1, 2}
\* outcome of a REST request
ApiOutcomes == {"ok", "empty", "error"}

\* a candle of the REST API carries both timestamps
RestCandle(t) == [kst |-> t, utc |-> t, trade_price |-> 1]
\* update_candle_from_ws builds its candle without candle_date_time_utc
WsCandle(t, price) == [kst |-> t, utc |-> NoTime, trade_price |-> price]

Reverse(s) == [i \in 1 .. Len(s) |-> s[Len(s) - i + 1]]

\* deque.extend on a deque with maxlen: the oldest candles fall out
deque_extend_unbounded(d, xs) == d \o xs
deque_extend(d, xs) ==
    LET all == d \o xs
    IN  IF Len(all) > RingCap
        THEN SubSeq(all, Len(all) - RingCap + 1, Len(all))
        ELSE all
deque_append(d, x) == deque_extend(d, <<x>>)

\* GET /candles/...: the newest candles, newest first, as far as the
\* market's history goes
get_candles_minutes(count) ==
    [i \in 1 .. Min(count, candle_time) |-> RestCandle(candle_time - i + 1)]

\* GET /candles/seconds with count = 120: the exchange has a candle only
\* for a second with trades, "available" of them
get_candles_seconds(available) == get_candles_minutes(Min(RingCap, available))

\* one page suffices for the ring; a failed request ends the loop with
\* what was collected; the result is oldest first
get_candles_minutes_extended(total_count, outcome) ==
    IF outcome = "ok" THEN Reverse(get_candles_minutes(total_count)) ELSE <<>>

\* initialize_candles_smart(unit, max_count, deque_obj) for the 1-minute
\* ring: the ring and the file it leaves
initialize_candles_smart(deque_obj, latest, fetch, fallback) ==
    LET local_candles == disk
        saved(d) == [ring |-> d, disk |-> d]
        reload == deque_extend(deque_obj, get_candles_minutes_extended(RingCap, fetch))
        failed == [ring |-> deque_extend(deque_obj,
                                get_candles_minutes_extended(RingCap, fallback)),
                   disk |-> disk]
    IN  IF local_candles = <<>> THEN saved(reload)
        ELSE IF latest = "error" THEN failed
        ELSE IF latest = "empty"
        THEN [ring |-> deque_extend(deque_obj, local_candles), disk |-> disk]
        ELSE
          LET last_local_candle == local_candles[Len(local_candles)]
              gap_count ==
                  IF last_local_candle.utc = NoTime THEN RingCap
                  ELSE Max(0, candle_time - last_local_candle.utc + GAP_MARGIN)
              new_candles == IF fetch = "ok" THEN Reverse(get_candles_minutes(gap_count))
                             ELSE <<>>
              newer(c) == c.utc > last_local_candle.utc
              to_append == SelectSeq(new_candles, newer)
              combined == local_candles \o to_append
              cut == IF Len(combined) > RingCap
                     THEN SubSeq(combined, Len(combined) - RingCap + 1, Len(combined))
                     ELSE combined
          IN  IF gap_count >= RingCap THEN saved(reload)
              ELSE IF gap_count > 0
              THEN IF fetch = "error" THEN failed
                   ELSE saved(deque_extend(deque_obj, cut))
              ELSE saved(deque_extend(deque_obj, local_candles))

RECURSIVE append_all(_, _)
append_all(d, xs) ==
    IF xs = <<>> THEN d ELSE append_all(deque_append(d, Head(xs)), Tail(xs))

\* update_candles, update_second_candles: "for candle in reversed(candles):
\* append"
update_second_candles(d, candles) == append_all(d, Reverse(candles))

\* update_candle_from_ws for one ring
update_candle_append_only(d, candle) == deque_append(d, candle)
update_candle_from_ws(d, candle) ==
    IF d # <<>> /\ d[Len(d)].kst = candle.kst
    THEN [d EXCEPT ![Len(d)] = candle]
    ELSE deque_append(d, candle)

trading_vars == <<config, states, current_prices, krw_balance, market_safe,
                  btc_trend, cumulative, now, loop, cmd, orders, trace>>

\* _update_top_markets, "for market in added_markets"
AddMarket(latest, fetch, fallback, seconds, available) ==
    /\ ~listed
    /\ LET m1 == initialize_candles_smart(minute_candles, latest, fetch, fallback)
           sec_candles == get_candles_seconds(available)
       IN  IF tracked = "candle.1m"
           THEN /\ minute_candles' = m1.ring
                /\ disk' = m1.disk
                /\ last_update' =
                     [op |-> "add", candles |-> <<>>,
                      latest |-> IF disk = <<>> THEN "none" ELSE latest,
                      fetch |-> IF disk # <<>> /\ latest # "ok" THEN "none" ELSE fetch]
                /\ UNCHANGED second_candles
           ELSE /\ IF seconds = "error"
                   THEN /\ UNCHANGED second_candles
                        /\ last_update' = [op |-> "add", candles |-> <<>>]
                   ELSE /\ second_candles' = update_second_candles(second_candles, sec_candles)
                        /\ last_update' = [op |-> "backfill", candles |-> sec_candles]
                /\ UNCHANGED <<minute_candles, disk>>
    /\ listed' = TRUE
    /\ UNCHANGED <<trading_vars, manager_vars, analysis_vars, service_vars, candle_time, tracked>>

\* _update_top_markets, "self.markets = new_markets" without the market
RemoveMarket ==
    /\ listed
    /\ listed' = FALSE
    /\ UNCHANGED <<trading_vars, manager_vars, analysis_vars, service_vars, minute_candles, second_candles, disk, candle_time,
                   tracked, last_update>>

\* the program is started again: MarketAnalyzer.__init__ makes empty rings,
\* the CSV file is as the last run left it
Restart ==
    /\ minute_candles # <<>> \/ second_candles # <<>>
    /\ minute_candles' = <<>>
    /\ second_candles' = <<>>
    /\ listed' = FALSE
    /\ last_update' = [op |-> "none", candles |-> <<>>]
    /\ UNCHANGED <<trading_vars, manager_vars, analysis_vars, service_vars, disk, candle_time,
                   tracked>>

\* _public_ws_monitor, a "candle.1m" message of a market in self.markets
CandleMinute(price) ==
    /\ listed
    /\ tracked = "candle.1m"
    /\ minute_candles' = update_candle_from_ws(minute_candles, WsCandle(candle_time, price))
    /\ last_update' = [op |-> "candle.1m", candles |-> <<WsCandle(candle_time, price)>>]
    /\ UNCHANGED <<trading_vars, manager_vars, analysis_vars, service_vars, second_candles, disk, candle_time, listed, tracked>>

\* _public_ws_monitor, a "candle.1s" message of a market in self.markets
CandleSecond(price) ==
    /\ listed
    /\ tracked = "candle.1s"
    /\ second_candles' = update_candle_from_ws(second_candles, WsCandle(candle_time, price))
    /\ last_update' = [op |-> "candle.1s", candles |-> <<WsCandle(candle_time, price)>>]
    /\ UNCHANGED <<trading_vars, manager_vars, analysis_vars, service_vars, minute_candles, disk, candle_time, listed, tracked>>

\* _macro_update_loop: "if an.minute_candles: an.save_candles_to_disk"
MacroUpdate ==
    /\ listed
    /\ minute_candles # <<>>
    /\ disk' = minute_candles
    /\ UNCHANGED <<trading_vars, manager_vars, analysis_vars, service_vars, minute_candles, second_candles, candle_time, listed,
                   tracked, last_update>>

\* the exchange opens the next candle
NextCandle ==
    /\ candle_time + 1 \in CandleTimes
    /\ candle_time' = candle_time + 1
    /\ UNCHANGED <<trading_vars, manager_vars, analysis_vars, service_vars, minute_candles, second_candles, disk, listed,
                   tracked, last_update>>

\* ------------------------------------------------------------------------
\* The position manager on one position
\* ------------------------------------------------------------------------
\* _manage_position (-> _execute_sell, DRY_RUN) with current_prices[market]
\* = price
ManagerTick(price) ==
    /\ has_position(managed)
    /\ Len(ticks) < MaxTicks
    /\ LET r == manage_position(managed, price, now)
       IN  managed' = IF r.sell_reason = ""
                      THEN r.st
                      ELSE execute_sell(r.st, price, r.sell_reason, 0, "ok", now).st
    /\ ticks' = Append(ticks, price)
    /\ UNCHANGED <<trading_vars, candle_vars, analysis_vars, service_vars>>

\* ------------------------------------------------------------------------
\* Entry signal (MarketAnalyzer.detect_combined_momentum)
\* ------------------------------------------------------------------------
\* rates per mille, strengths in points
MOMENTUM_THRESHOLD == 15
MIN_SIGNAL_STRENGTH == 75
MTF_5M_MIN_CANDLES == 24
MTF_5M_TREND_THRESHOLD == 2
MTF_5M_EARLY_STAGE_MAX == 20
MTF_MAX_1M_CHANGE == 30
\* "if change_5m <= 0.008"
EARLY_STAGE_CHANGE == 8
\* "active_rising = price_change >= 0.003", "prev_momentum > 0.003"
ACTIVE_RISING == 3
\* "elif len(self.minute5_candles) >= 3"
WEAKENING_CANDLES == 3
\* "combined_strength < 80", "combined_strength < 90"
NEUTRAL_STRENGTH == 80
MID_STRENGTH == 90
\* a strength of s points, in thousandths of a point
Points(s) == s * Per

Trends == {"bullish", "neutral", "bearish"}
\* detect_momentum: signal, strength, price_change.  A signal needs
\* price_change >= MOMENTUM_THRESHOLD, which alone is worth 30 points
MinuteResults ==
    {[signal |-> FALSE, strength |-> 0, price_change |-> 0],
     [signal |-> FALSE, strength |-> 0, price_change |-> 5],
     [signal |-> FALSE, strength |-> 0, price_change |-> 14],
     [signal |-> FALSE, strength |-> 30, price_change |-> 35],
     [signal |-> TRUE, strength |-> 60, price_change |-> 20],
     [signal |-> TRUE, strength |-> 100, price_change |-> 20],
     [signal |-> TRUE, strength |-> 100, price_change |-> 35]}
\* detect_second_momentum: signal, strength, rapid_rise; rapid_rise is a
\* signal
SecondResults ==
    {[signal |-> FALSE, strength |-> 0, rapid_rise |-> FALSE],
     [signal |-> TRUE, strength |-> 100, rapid_rise |-> FALSE],
     [signal |-> TRUE, strength |-> 100, rapid_rise |-> TRUE]}
\* len(minute5_candles)
M5Counts == {2, 3, 4, 24}
\* change_5m over the last MTF_5M_MIN_CANDLES candles
Changes5m == {-5, 0, 5, 10, 25}
\* change between two neighbouring 5-minute candles
Momenta5m == {-2, 1, 6, 18}

\* what the analysis reads besides the two momentum results.  Fields the
\* code does not read for lack of candles take one value only
AnalyzerInputs ==
    {x \in [macro_bearish : BOOLEAN, m5_count : M5Counts, change_5m : Changes5m,
            last_momentum : Momenta5m, prev_momentum : {1, 6},
            ma_downtrend : BOOLEAN, three_down : BOOLEAN, volume_ok : BOOLEAN,
            trend_15m : Trends, sell_wall : BOOLEAN, strong_buying : BOOLEAN] :
        /\ x.m5_count < MTF_5M_MIN_CANDLES
              => x.change_5m = 0 /\ ~x.ma_downtrend /\ ~x.volume_ok
        /\ x.m5_count < WEAKENING_CANDLES
              => x.last_momentum = 1 /\ x.prev_momentum = 1 /\ ~x.three_down
        /\ x.macro_bearish => x.change_5m = 0 /\ ~x.ma_downtrend /\ ~x.volume_ok
                                 /\ ~x.three_down /\ x.trend_15m = "neutral"}

\* analyze_multi_timeframe with MTF_ENABLED and MTF_STRICT_MODE
analyze_multi_timeframe(x) ==
    LET enough == x.m5_count >= MTF_5M_MIN_CANDLES
        late == enough /\ x.change_5m >= MTF_5M_EARLY_STAGE_MAX
    IN  IF x.macro_bearish
        THEN [valid_entry |-> FALSE, stage |-> "unknown", trend_5m |-> "neutral",
              trend_15m |-> "neutral", volume_confirmed |-> FALSE,
              warnings |-> {"macro_bearish"}]
        ELSE [valid_entry |->
                  /\ ~(enough /\ x.ma_downtrend)
                  /\ ~late
                  /\ x.trend_15m # "bearish"
                  /\ ~(x.m5_count >= 3 /\ x.three_down),
              stage |->
                  IF ~enough THEN "unknown"
                  ELSE IF late THEN "late"
                  ELSE IF x.change_5m >= MTF_5M_TREND_THRESHOLD
                  THEN IF x.change_5m <= EARLY_STAGE_CHANGE THEN "early" ELSE "mid"
                  ELSE "neutral",
              trend_5m |->
                  IF ~enough THEN "neutral"
                  ELSE IF x.change_5m >= MTF_5M_TREND_THRESHOLD /\ x.last_momentum >= 0
                  THEN "bullish"
                  ELSE IF x.change_5m <= 0 - MTF_5M_TREND_THRESHOLD THEN "bearish"
                  ELSE "neutral",
              trend_15m |-> x.trend_15m,
              volume_confirmed |-> enough /\ x.volume_ok,
              warnings |-> (IF late THEN {"late_stage"} ELSE {})
                           \cup (IF enough /\ x.ma_downtrend THEN {"downtrend"} ELSE {})
                           \cup (IF x.trend_15m = "bearish" THEN {"m15_bearish"} ELSE {})
                           \cup (IF x.m5_count >= 3 /\ x.three_down
                                 THEN {"three_down"} ELSE {})]

\* "candles_5m[-15:]", "candles_5m[-50:]"
MA_SHORT == 15
MA_LONG == 50
\* "if disparity < -0.015", per mille
DISPARITY_MIN == 0 - 15

\* the 5-minute ring by its shape: `count` candles, closing at `older` up to
\* the last fifteen, then at `recent`, and the last one from `open` to
\* `close`; the three candles before the last traded `prev_volume` each
M5Windows ==
    [count : {MTF_5M_MIN_CANDLES, MA_LONG - 1, MA_LONG}, older : {200, 220},
     recent : {200}, open : {198}, close : {196, 200}, current : {196, 197, 198, 200},
     prev_volume : {0, 10}, volume : {14, 15}]

\* fifteen and fifty times the moving averages; 0 without the candles
ma15_sum(w) == IF w.count >= MA_SHORT THEN (MA_SHORT - 1) * w.recent + w.close ELSE 0
ma50_sum(w) ==
    IF w.count >= MA_LONG THEN (MA_LONG - MA_SHORT) * w.older + ma15_sum(w) ELSE 0
\* "ma15 > 0 and ma50 > 0 and ma15 < ma50"
is_downtrend(w) ==
    /\ ma15_sum(w) > 0
    /\ ma50_sum(w) > 0
    /\ ma15_sum(w) * MA_LONG < ma50_sum(w) * MA_SHORT
\* "disparity = (current_price - ma15) / ma15", "disparity < -0.015"
oversold(w) ==
    ma15_sum(w) > 0
        /\ (w.current * MA_SHORT - ma15_sum(w)) * Per < DISPARITY_MIN * ma15_sum(w)
is_bullish_candle(w) == w.close > w.open
\* "avg_vol > 0 and current_vol >= avg_vol * 1.5"
is_volume_spike(w) == w.prev_volume > 0 /\ 2 * w.volume >= 3 * w.prev_volume

\* the downtrend part of analyze_multi_timeframe: does it set valid_entry to
\* False.  A candle that is not bullish or a volume that is no spike adds
\* a warning and nothing else
downtrend_blocks(w) == is_downtrend(w) /\ ~oversold(w)

\* analyze_multi_timeframe on a ring of that shape
AnalyzeMultiTimeframe ==
    /\ ~momentum.analysed
    /\ \E w \in M5Windows, x \in AnalyzerInputs :
         /\ x.m5_count = MTF_5M_MIN_CANDLES
         /\ ~x.ma_downtrend /\ x.prev_momentum = 1 /\ ~x.sell_wall /\ x.strong_buying
         /\ LET input == [x EXCEPT !.m5_count = w.count,
                                   !.ma_downtrend = ~x.macro_bearish /\ downtrend_blocks(w)]
            IN  momentum' = [NoMomentum EXCEPT !.analysed = TRUE,
                                               !.mtf = analyze_multi_timeframe(input),
                                               !.input = [x |-> input, window |-> w]]
    /\ UNCHANGED <<trading_vars, candle_vars, manager_vars, macro, indicators, service_vars>>

Signal(strength, reasons) ==
    [NoSignal EXCEPT !.signal = TRUE, !.strength = strength, !.reasons = reasons]
\* "combined_signal = False; mtf_blocked = True; reasons.append(...)"
Blocked(c, reasons) ==
    [c EXCEPT !.signal = FALSE, !.mtf_blocked = TRUE, !.reasons = @ \cup reasons]

\* detect_combined_momentum, stage 1 and 1.5: is there a signal at all
momentum_signal(minute_result, second_result, mtf_result, x) ==
    LET has_minute_support == minute_result.price_change * 10 > MOMENTUM_THRESHOLD * 9
        has_bullish_trend == mtf_result.trend_5m = "bullish"
                                \/ mtf_result.trend_15m = "bullish"
        first ==
            IF minute_result.signal /\ second_result.signal
            THEN Signal(Min(Points(100), minute_result.strength * 600
                                            + second_result.strength * 400),
                        {"minute", "second"})
            ELSE IF second_result.rapid_rise
            THEN IF has_minute_support /\ has_bullish_trend
                 THEN Signal(Points(second_result.strength), {"rapid_entry"})
                 ELSE IF has_minute_support
                 THEN Signal(second_result.strength * 500, {"weak_entry"})
                 ELSE NoSignal
            ELSE IF minute_result.signal
            THEN Signal(minute_result.strength * 800, {"minute"})
            ELSE NoSignal
        trend_bullish == mtf_result.trend_5m = "bullish"
                            /\ mtf_result.trend_15m \in {"bullish", "neutral"}
        active_rising == minute_result.price_change >= ACTIVE_RISING
    IN  IF ~first.signal /\ trend_bullish /\ x.strong_buying /\ active_rising
        THEN Signal(Points(60), {"trend_following"})
        ELSE first

\* the last branch of the filter chain: adjustment by stage, then the
\* volume and 15-minute bonuses
stage_filter(c, mtf_result) ==
    LET stage == mtf_result.stage
        discounted == (c.strength * 85) \div 100
        s1 == IF stage \in {"neutral", "unknown"} /\ c.strength < Points(NEUTRAL_STRENGTH)
              THEN Blocked(c, {"neutral_weak"})
              ELSE IF stage = "early"
              THEN [c EXCEPT !.strength = Min(Points(100), (@ * 12) \div 10),
                             !.reasons = @ \cup {"early_stage"}]
              ELSE IF stage = "mid"
              THEN IF discounted < Points(MID_STRENGTH)
                   THEN Blocked([c EXCEPT !.strength = discounted], {"mid_weak"})
                   ELSE [c EXCEPT !.strength = discounted,
                                  !.reasons = @ \cup {"mid_stage"}]
              ELSE IF stage = "late" THEN Blocked(c, {"late_stage"})
              ELSE c
        s2 == IF s1.signal /\ mtf_result.volume_confirmed
              THEN [s1 EXCEPT !.strength = Min(Points(100), @ + Points(10))] ELSE s1
    IN  IF ~s2.signal THEN s2
        ELSE IF mtf_result.trend_15m = "bullish"
        THEN [s2 EXCEPT !.strength = Min(Points(100), @ + Points(5))]
        ELSE IF mtf_result.trend_15m = "bearish"
        THEN Blocked([s2 EXCEPT !.strength = Max(0, @ - Points(20))], {"m15_bearish"})
        ELSE s2

\* detect_combined_momentum, stage 2: one if / elif chain.  With three
\* candles the loop "for i in range(-3, 0)" reads minute5_candles[-4] and
\* raises IndexError
mtf_filter(c, minute_result, mtf_result, x) ==
    IF mtf_result.trend_5m = "bearish" THEN Blocked(c, {"m5_bearish"})
    ELSE IF x.m5_count >= WEAKENING_CANDLES
    THEN IF x.m5_count = WEAKENING_CANDLES THEN [NoSignal EXCEPT !.raised = TRUE]
         ELSE IF x.prev_momentum > ACTIVE_RISING /\ x.last_momentum * 2 < x.prev_momentum
         THEN Blocked(c, {"m5_weakening"})
         ELSE c
    ELSE IF minute_result.price_change >= MTF_MAX_1M_CHANGE
    THEN Blocked(c, {"m1_parabolic"})
    ELSE IF ~mtf_result.valid_entry
    THEN Blocked(c, {"mtf_blocked"} \cup mtf_result.warnings)
    ELSE stage_filter(c, mtf_result)

\* the analysis without its stage 0
detect_combined_momentum_no_orderbook(minute_result, second_result, mtf_result, x) ==
    LET c1 == momentum_signal(minute_result, second_result, mtf_result, x)
        c2 == IF c1.signal THEN mtf_filter(c1, minute_result, mtf_result, x) ELSE c1
    IN  IF c2.signal /\ c2.strength < Points(MIN_SIGNAL_STRENGTH)
        THEN Blocked(c2, {"min_strength"})
        ELSE c2

\* stage 0 (order book), stages 1 to 2, stage 3 (minimum strength)
\* detect_combined_momentum without its stage 3, the minimum strength
detect_combined_momentum_no_minimum(minute_result, second_result, mtf_result, x) ==
    LET c1 == momentum_signal(minute_result, second_result, mtf_result, x)
        c2 == IF c1.signal THEN mtf_filter(c1, minute_result, mtf_result, x) ELSE c1
    IN  IF x.sell_wall THEN Blocked(NoSignal, {"orderbook"}) ELSE c2

detect_combined_momentum(minute_result, second_result, mtf_result, x) ==
    LET c1 == momentum_signal(minute_result, second_result, mtf_result, x)
        c2 == IF c1.signal THEN mtf_filter(c1, minute_result, mtf_result, x) ELSE c1
    IN  IF x.sell_wall THEN Blocked(NoSignal, {"orderbook"})
        ELSE IF c2.signal /\ c2.strength < Points(MIN_SIGNAL_STRENGTH)
        THEN Blocked(c2, {"min_strength"})
        ELSE c2

\* _find_entry: "momentum = analyzer.detect_combined_momentum(current_price)"
\* on what the analyzer holds
DetectCombinedMomentum ==
    /\ ~momentum.analysed
    /\ \E minute_result \in MinuteResults, second_result \in SecondResults,
          x \in AnalyzerInputs :
         LET mtf_result == analyze_multi_timeframe(x)
         IN  momentum' =
                 [analysed |-> TRUE, minute |-> minute_result,
                  fired |-> momentum_signal(minute_result, second_result,
                                            mtf_result, x).signal,
                  mtf |-> mtf_result, input |-> x,
                  result |-> detect_combined_momentum(minute_result, second_result,
                                                      mtf_result, x)]
    /\ UNCHANGED <<trading_vars, candle_vars, manager_vars, macro, indicators, service_vars>>

\* ------------------------------------------------------------------------
\* Macro trend (MarketAnalyzer.analyze_macro) and the gates of _find_entry
\* ------------------------------------------------------------------------
\* rates per mille; the score in hundredths of that
MACRO_MIN_CHANGE_RATE == 0 - 15
MACRO_BULLISH_THRESHOLD == 15
SHORT_MOMENTUM_THRESHOLD == 15
DAILY_BEARISH_THRESHOLD == 0 - 20
H4_BEARISH_THRESHOLD == 0 - 5
STRONG_SHORT_MOMENTUM_5M_THRESHOLD == 15
STRONG_SHORT_MOMENTUM_H4_MIN == 0
\* share of the bid volume, per cent
STRONG_MOMENTUM_BUY_PRESSURE_MIN == 55
STRONG_MOMENTUM_FATIGUE_MAX == 40
STRONG_MOMENTUM_1M_CONSISTENCY_MIN == 3
V_REVERSAL_MIN_DROP == 0 - 3
V_REVERSAL_MIN_RISE == 2
VOLATILITY_MAX_STDDEV == 8
\* _find_entry: "mr.get('daily_3d_change', 0) > 0.20", "m5_change < 0.005"
SURGE_3D == 200
SURGE_MIN_5M == 5
\* _find_entry: "sentiment['rsi'] >= 75", and a sentiment with neither
\* fatigue nor overbought
Sentiments == {"bearish", "very_overbought", "calm"}

\* m1_changes: the changes between the last five 1-minute candles, none
\* when fewer are held
M1Changes ==
    {<<>>, <<3, 1, 4, 2>>, <<0 - 5, 1, 2, 1>>, <<0 - 2, 0 - 2, 2, 1>>,
     <<0 - 12, 12, 0 - 12, 12>>}

\* what analyze_macro reads: changes over the candle rings, the V context
\* of the 15-minute ring, the 1-minute volumes and the fatigue score
MacroInputs ==
    [m15_change : {0, 20}, m30_change : {0}, h1_change : {0},
     h4_change : {0 - 10, 0 - 5, 0, 3}, m5_change : {1, 18},
     daily_change : {0 - 80, 0, 80}, daily_3d_change : {0 - 25, 0 - 20, 0, 250},
     m1_changes : M1Changes, long_downtrend : BOOLEAN,
     buy_pressure : {50, 60}, fatigue_score : {30, 45}]

RECURSIVE SeqSum(_)
SeqSum(s) == IF s = <<>> THEN 0 ELSE s[1] + SeqSum(SubSeq(s, 2, Len(s)))

\* statistics.stdev(xs) <= limit, on the sum of squares:
\* sum((n*x - sum(xs))^2) <= limit^2 * n^2 * (n - 1)
stdev_at_most(xs, limit) ==
    LET n == Len(xs)
        total == SeqSum(xs)
    IN  SeqSum([k \in 1 .. n |-> (n * xs[k] - total) * (n * xs[k] - total)])
            <= limit * limit * n * n * (n - 1)

\* the exception without the V-reversal condition
strong_short_momentum_no_v(i) ==
    /\ i.m5_change >= STRONG_SHORT_MOMENTUM_5M_THRESHOLD
    /\ Cardinality({k \in 1 .. Len(i.m1_changes) : i.m1_changes[k] > 0})
           >= STRONG_MOMENTUM_1M_CONSISTENCY_MIN
    /\ (Len(i.m1_changes) >= 3 => stdev_at_most(i.m1_changes, VOLATILITY_MAX_STDDEV))
    /\ i.h4_change > STRONG_SHORT_MOMENTUM_H4_MIN
    /\ i.buy_pressure >= STRONG_MOMENTUM_BUY_PRESSURE_MIN
    /\ i.fatigue_score <= STRONG_MOMENTUM_FATIGUE_MAX

\* analyze_macro: strong_short_momentum, with V_REVERSAL_ENABLED
strong_short_momentum(i) ==
    LET m1_consistency_count ==
            Cardinality({k \in 1 .. Len(i.m1_changes) : i.m1_changes[k] > 0})
        v_reversal_detected ==
            /\ Len(i.m1_changes) >= 4
            /\ i.long_downtrend
            /\ SeqSum(SubSeq(i.m1_changes, 1, 2)) <= V_REVERSAL_MIN_DROP
            /\ SeqSum(SubSeq(i.m1_changes, 3, Len(i.m1_changes))) >= V_REVERSAL_MIN_RISE
        volatility_ok ==
            Len(i.m1_changes) >= 3 => stdev_at_most(i.m1_changes, VOLATILITY_MAX_STDDEV)
    IN  /\ i.m5_change >= STRONG_SHORT_MOMENTUM_5M_THRESHOLD
        /\ m1_consistency_count >= STRONG_MOMENTUM_1M_CONSISTENCY_MIN
        /\ volatility_ok
        /\ v_reversal_detected
        /\ i.h4_change > STRONG_SHORT_MOMENTUM_H4_MIN
        /\ i.buy_pressure >= STRONG_MOMENTUM_BUY_PRESSURE_MIN
        /\ i.fatigue_score <= STRONG_MOMENTUM_FATIGUE_MAX

\* analyze_macro: the long-term filter, with LONG_TERM_FILTER_ENABLED,
\* DAILY_BEARISH_BLOCK and H4_BEARISH_BLOCK
long_term_block(i, strong) ==
    [daily |-> ~strong /\ i.daily_3d_change <= DAILY_BEARISH_THRESHOLD,
     h4 |-> ~strong /\ i.h4_change <= H4_BEARISH_THRESHOLD]

analyze_macro(i) ==
    LET strong == strong_short_momentum(i)
        block == long_term_block(i, strong)
        long_term_bearish == block.daily \/ block.h4
        score == i.m15_change * 20 + i.m30_change * 15 + i.h1_change * 20
                    + i.h4_change * 25 + i.daily_change * 20
        short_squeeze == i.m15_change >= SHORT_MOMENTUM_THRESHOLD
        trend == IF long_term_bearish THEN "bearish"
                 ELSE IF score < MACRO_MIN_CHANGE_RATE * 100 /\ ~short_squeeze
                 THEN "bearish"
                 ELSE IF score > MACRO_BULLISH_THRESHOLD * 100 \/ short_squeeze
                 THEN "bullish"
                 ELSE "neutral"
    IN  [trend |-> trend, can_trade |-> trend # "bearish", score |-> score,
         m5_change |-> i.m5_change, h4_change |-> i.h4_change,
         daily_3d_change |-> i.daily_3d_change, short_squeeze |-> short_squeeze,
         long_term_bearish |-> long_term_bearish,
         block_reason |-> IF block.daily THEN "daily_3d"
                          ELSE IF block.h4 THEN "h4" ELSE "none",
         strong_short_momentum |-> strong]

\* MarketAnalyzer.analyze_macro on what the analyzer holds, as
\* _macro_update_loop and _initialize_analyzers call it
AnalyzeMacro ==
    /\ ~macro.analysed
    /\ \E i \in MacroInputs :
         macro' = [analysed |-> TRUE, input |-> i, result |-> analyze_macro(i),
                   entry |-> "none", momentum |-> NoSignal]
    /\ UNCHANGED <<trading_vars, candle_vars, manager_vars, momentum, indicators, service_vars>>

\* _find_entry from the macro filter on: the macro gate (momentum_trader.py
\* only), the sentiment, the combined momentum, the overbought filter
find_entry_gates(mr, sentiment, signal) ==
    IF variant = "momentum_trader"
       /\ (mr.h4_change < H4_BEARISH_THRESHOLD
           \/ (mr.daily_3d_change > SURGE_3D /\ mr.m5_change < SURGE_MIN_5M))
    THEN "macro_gate"
    ELSE IF sentiment = "bearish" THEN "sentiment"
    ELSE IF ~signal THEN "no_signal"
    ELSE IF sentiment = "very_overbought" THEN "overbought"
    ELSE "execute_buy"

\* the analyzer at _find_entry after a macro analysis: macro_trend is the
\* analysed trend, the last 5-minute change is the one it read, and a
\* 4-hour or 3-day change needs 48 or 576 5-minute candles
GateInputs ==
    LET bearish == macro.result.trend = "bearish"
        long == macro.input.h4_change # 0 \/ macro.input.daily_3d_change # 0
    IN  {x \in [macro_bearish : {bearish},
                m5_count : IF long THEN {MTF_5M_MIN_CANDLES}
                           ELSE {WEAKENING_CANDLES + 1, MTF_5M_MIN_CANDLES},
                change_5m : Changes5m, last_momentum : {macro.input.m5_change},
                prev_momentum : {1}, ma_downtrend : {FALSE}, three_down : {FALSE},
                volume_ok : {FALSE}, trend_15m : {"neutral"}, sell_wall : {FALSE},
                strong_buying : {TRUE}] : x \in AnalyzerInputs}

\* MomentumTrader._find_entry on a market free to trade
FindEntryGates ==
    /\ macro.analysed
    /\ macro.entry = "none"
    /\ \E x \in GateInputs, sentiment \in Sentiments, minute_result \in MinuteResults,
          second_result \in SecondResults :
         LET momentum_result ==
                 detect_combined_momentum(minute_result, second_result,
                                          analyze_multi_timeframe(x), x)
         IN  macro' = [macro EXCEPT
                 !.entry = find_entry_gates(macro.result, sentiment,
                                            momentum_result.signal),
                 !.momentum = momentum_result]
    /\ UNCHANGED <<trading_vars, candle_vars, manager_vars, momentum, indicators, service_vars>>

\* ------------------------------------------------------------------------
\* REST calls (UpbitAPI._request)
\* ------------------------------------------------------------------------
\* calls followed in one behaviour
MaxCalls == 2
\* "for attempt in range(4)"
MAX_ATTEMPTS == 4
Methods == {"GET", "POST", "DELETE", "PUT"}
\* what one attempt meets: a response by its status code, or an exception
\* of the session without a response
Responses == {"200", "429", "400", "500", "ConnectionError"}

\* "wait_time = 0.5 * (2 ** attempt)", in half seconds
RECURSIVE wait_time(_)
wait_time(attempt) == IF attempt = 0 THEN 1 ELSE 2 * wait_time(attempt - 1)

\* a loop body that sleeps and goes on after any failed attempt
request_attempt_retry_all(r, response) ==
    LET seen == [r EXCEPT !.responses = Append(@, response)]
    IN  IF response = "200" THEN [seen EXCEPT !.result = "returned"]
        ELSE IF r.attempt + 1 = MAX_ATTEMPTS
        THEN [seen EXCEPT !.waits = Append(@, wait_time(r.attempt)),
                          !.result = "returned_none"]
        ELSE [seen EXCEPT !.waits = Append(@, wait_time(r.attempt)),
                          !.attempt = @ + 1]

\* one pass of the loop body of _request, attempt r.attempt.  After the
\* last attempt's 429 the loop is left and the function ends without a
\* return statement
request_attempt(r, response) ==
    LET seen == [r EXCEPT !.responses = Append(@, response)]
    IN  IF r.method \notin {"GET", "POST", "DELETE"}
        THEN [r EXCEPT !.result = "raised"]
        ELSE IF response = "429"
        THEN IF r.attempt + 1 = MAX_ATTEMPTS
             THEN [seen EXCEPT !.waits = Append(@, wait_time(r.attempt)),
                               !.result = "returned_none"]
             ELSE [seen EXCEPT !.waits = Append(@, wait_time(r.attempt)),
                               !.attempt = @ + 1]
        ELSE IF response = "200" THEN [seen EXCEPT !.result = "returned"]
        ELSE [seen EXCEPT !.result = "raised"]

\* a caller enters _request
RequestStart(method) ==
    /\ request.result # "pending"
    /\ request.calls < MaxCalls
    /\ request' = [calls |-> request.calls + 1, method |-> method, attempt |-> 0,
                   responses |-> <<>>, waits |-> <<>>, result |-> "pending",
                   before |-> request.result]
    /\ UNCHANGED <<trading_vars, candle_vars, manager_vars, analysis_vars, limits, running, tasks, roster>>

\* the next attempt of the call under way
RequestAttempt(response) ==
    /\ request.result = "pending"
    /\ request' = request_attempt(request, response)
    /\ UNCHANGED <<trading_vars, candle_vars, manager_vars, analysis_vars, limits, running, tasks, roster>>

RequestStep ==
    \/ \E method \in Methods : RequestStart(method)
    \/ \E response \in Responses : RequestAttempt(response)

\* ------------------------------------------------------------------------
\* RSI (MarketAnalyzer._update_technical_indicators)
\* ------------------------------------------------------------------------
\* "if len(self.price_history) < 14: return"
RSI_MIN_PRICES == 14
\* "for i in range(1, min(15, len(prices)))", "sum(gains) / 14"
RSI_PERIOD == 14
\* prices in units of 0.0001 won, the tick of the cheapest markets and the
\* value "0.0001" an empty list of gains or losses is replaced by; the RSI
\* in thousandths of a point
RsiBase == 100 * 100 * 100
RsiSteps == {1, 10 * 100}
RSI_START == 50 * Per

\* a price history by its shape: rises, then ticks at the same price, then
\* falls; the RSI reads sums, so the order within the window is immaterial
price_history(up, flat, down, up_size, down_size) ==
    [k \in 1 .. up + flat + down + 1 |->
        RsiBase + up_size * Min(k - 1, up) - down_size * Max(0, k - 1 - up - flat)]
PriceHistories ==
    {price_history(up, flat, RSI_PERIOD - 2 - up - flat, 1, 1) :
         up \in 0 .. 1, flat \in 0 .. 1}
    \cup {price_history(s[2], s[3], s[1] - s[2] - s[3], up_size, down_size) :
             s \in {x \in {RSI_PERIOD - 1, RSI_PERIOD, RSI_PERIOD + 2}
                            \X {0, 1, 2, 7, 13, RSI_PERIOD} \X {0, 1, 6, 13, RSI_PERIOD} :
                        x[2] + x[3] <= x[1]},
             up_size \in RsiSteps, down_size \in RsiSteps}

\* _update_technical_indicators: rsi_value from the last 15 prices.
\* avg_gain and avg_loss are kept as their 14-fold, in units of 0.0001;
\* 100 - 100 / (1 + rs) = 100 * avg_gain / (avg_gain + avg_loss)
rsi(prices) ==
    LET n == Min(RSI_PERIOD + 1, Len(prices)) - 1
        change(i) == prices[Len(prices) + 1 - i] - prices[Len(prices) - i]
        gains == {i \in 1 .. n : change(i) > 0}
        losses == {i \in 1 .. n : ~(change(i) > 0)}
        avg_gain == IF gains # {} THEN SeqSum([i \in 1 .. n |-> Max(change(i), 0)])
                    ELSE RSI_PERIOD
        avg_loss == IF losses # {} THEN SeqSum([i \in 1 .. n |-> Max(0 - change(i), 0)])
                    ELSE RSI_PERIOD
    IN  IF avg_loss > 0 THEN (100 * Per * avg_gain) \div (avg_gain + avg_loss)
        ELSE IF avg_gain > 0 THEN 100 * Per ELSE RSI_START

\* update_price -> _update_technical_indicators on the price history held
UpdateTechnicalIndicators ==
    /\ ~indicators.updated
    /\ \E prices \in PriceHistories :
         indicators' = [updated |-> TRUE, prices |-> prices,
                        rsi_value |-> IF Len(prices) < RSI_MIN_PRICES
                                      THEN indicators.rsi_value ELSE rsi(prices)]
    /\ UNCHANGED <<trading_vars, candle_vars, manager_vars, momentum, macro, service_vars>>

\* ------------------------------------------------------------------------
\* Trade limits (TradingState.can_trade on what record_trade has recorded)
\* ------------------------------------------------------------------------
\* instants trades are recorded at, and instants can_trade is called at: a
\* second before and the second each waiting time after the later trades is
\* over, which for the longest is also an hour after the earlier trades
LateTrade == 2 * CONSECUTIVE_LOSS_COOLDOWN
TradeTimes == {0, LateTrade}
CheckTimes ==
    UNION {{LateTrade + w - 1, LateTrade + w} :
              w \in {TRADE_COOLDOWN, COOL_DOWN_AFTER_LOSS, CONSECUTIVE_LOSS_COOLDOWN}}

\* how a position was closed: at a profit, by the stop, at a loss when its
\* holding time was up, or at a loss by the stop with trailing_active set
ExitKinds == {"win", "loss", "held", "trail"}
exit_type(kind) ==
    IF kind = "win" THEN "take_profit"
    ELSE IF kind = "loss" THEN "stop_loss"
    ELSE IF kind = "held" THEN "time_exit" ELSE "trailing_stop"
exit_profit(kind) == IF kind = "win" THEN 1 ELSE 0 - 1

\* _execute_buy and _execute_sell as far as the trade log goes
round_trip(st, kind, t) ==
    record_trade(record_trade(st, "buy", 220 * Per, 0, t),
                 exit_type(kind), 220 * Per, exit_profit(kind), t)

RECURSIVE round_trips(_, _)
round_trips(st, exits) ==
    IF exits = <<>> THEN st
    ELSE round_trips(round_trip(st, exits[1][1], exits[1][2]), Tail(exits))

\* trade logs: a run of profitable round trips, then up to three round trips
\* of any kind, in the order of their times
WinRuns == {0, 8, 9, 10}
MaxExits == 3
ExitRuns ==
    UNION {{x \in [1 .. k -> ExitKinds \X TradeTimes] :
               \A i \in 1 .. k - 1 : x[i][2] <= x[i + 1][2]} : k \in 0 .. MaxExits}
TradeLogs ==
    UNION {{[i \in 1 .. n |-> <<"win", t>>] \o x :
               x \in {y \in ExitRuns : y = <<>> \/ y[1][2] >= t}} :
           n \in WinRuns, t \in TradeTimes}

\* the state after a trade log, with or without a position bought after it
recorded(log, open) ==
    LET st == round_trips(TradingStateInit, log)
    IN  IF open THEN record_trade(st, "buy", 220 * Per, 0, LateTrade) ELSE st

\* current_prices[market] when _find_entry runs: the price of the recorded
\* exits, and the first whole price 2% or more below it
EntryPrices == {215, 220}

\* _find_entry up to its try block: "if not state.can_trade(): return", then
\* the re-entry guard; "open" is an entry search that goes on to the analysis
entry_guards(st, t, price) ==
    IF ~can_trade(st, t) THEN "no_trade"
    ELSE IF reentry_wait(st, price) THEN "reentry_wait"
    ELSE "open"

\* _find_entry's "if not state.can_trade()" and re-entry guard
CanTrade ==
    /\ ~limits.checked
    /\ \E log \in TradeLogs, open \in BOOLEAN, t \in CheckTimes, price \in EntryPrices :
         LET st == recorded(log, open)
         IN  limits' = [checked |-> TRUE, st |-> st, t |-> t, result |-> can_trade(st, t),
                        price |-> price * Per,
                        entry |-> entry_guards(st, t, price * Per)]
    /\ UNCHANGED <<trading_vars, candle_vars, manager_vars, analysis_vars, request, running, tasks, roster>>

\* ------------------------------------------------------------------------
\* The tasks and the running flag
\* ------------------------------------------------------------------------
\* a stream task whose inner "while self.running" is "while True"
loop_next_inner_forever(l, pc, run) ==
    IF pc = "check" THEN (IF ~run THEN {"done"}
                          ELSE IF l \in StreamLoops THEN {"connect"}
                          ELSE IF l \in SleepFirstLoops THEN {"sleep"} ELSE {"work"})
    ELSE IF l \in StreamLoops
    THEN (IF pc = "connect" THEN {"inner", "backoff"}
          ELSE IF pc = "inner" THEN {"recv"}
          ELSE IF pc = "recv" THEN {"inner", "backoff"}
          ELSE {"check"})
    ELSE IF l \in SleepFirstLoops THEN (IF pc = "sleep" THEN {"work"} ELSE {"check"})
    ELSE IF l \in WorkFirstLoops THEN (IF pc = "work" THEN {"sleep"} ELSE {"check"})
    ELSE (IF pc = "work" THEN {"sleep", "check"} ELSE {"check"})

\* where a task can be after its next step.  "check" is the test of the
\* (outer) while; a false test returns.  Streams: "connect" opens the
\* websocket and subscribes, "inner" is the test of the inner while, "recv"
\* the read with its 30 s timeout, "backoff" the sleep of an except clause.
\* _check_commands: an empty queue or a failed command sleeps, a processed
\* command goes back to the test.  _trading_loop sleeps 1 s after a tick
\* and 5 s after a failed one
loop_next(l, pc, run) ==
    IF pc = "check" THEN (IF ~run THEN {"done"}
                          ELSE IF l \in StreamLoops THEN {"connect"}
                          ELSE IF l \in SleepFirstLoops THEN {"sleep"} ELSE {"work"})
    ELSE IF l \in StreamLoops
    THEN (IF pc = "connect" THEN {"inner", "backoff"}
          ELSE IF pc = "inner" THEN (IF run THEN {"recv"} ELSE {"check"})
          ELSE IF pc = "recv" THEN {"inner", "backoff"}
          ELSE {"check"})
    ELSE IF l \in SleepFirstLoops THEN (IF pc = "sleep" THEN {"work"} ELSE {"check"})
    ELSE IF l \in WorkFirstLoops THEN (IF pc = "work" THEN {"sleep"} ELSE {"check"})
    ELSE (IF pc = "work" THEN {"sleep", "check"} ELSE {"check"})

\* one task runs from one suspension point or test to the next
TaskStep(l) ==
    /\ tasks[l] # "done"
    /\ \E pc \in loop_next(l, tasks[l], running) : tasks' = [tasks EXCEPT ![l] = pc]
    /\ UNCHANGED <<trading_vars, candle_vars, manager_vars, analysis_vars, request, limits,
                   running, roster>>

\* process_user_command: "/exit", "/quit", "exit" or "quit"
Quit ==
    /\ tasks["_check_commands"] = "work"
    /\ running' = FALSE
    /\ tasks' = [tasks EXCEPT !["_check_commands"] = "check"]
    /\ UNCHANGED <<trading_vars, candle_vars, manager_vars, analysis_vars, request, limits,
                   roster>>

\* ------------------------------------------------------------------------
\* The market list: _update_top_markets against _trading_loop
\* ------------------------------------------------------------------------

\* the first TOP_MARKET_COUNT markets by 24h turnover, as the exchange
\* ranks them when the refresh asks
TopMarkets == (SUBSET Markets) \ {{}}

\* held_markets: the states with has_position()
held_markets(r) == {m \in Markets : r.position[m] = "held"}

\* _update_top_markets, automatic mode, up to "self.markets = new_markets".
\* momentum_trader.py runs it without an await.  trader.py awaits
\* asyncio.sleep(0) for every added market, after new_markets was computed
\* and before it is assigned.
UpdateTopMarkets(top) ==
    /\ roster.pc \in {"sleep", "buy_wait"}
    /\ ~roster.pending
    /\ LET new_markets == top \cup held_markets(roster)
           added_markets == new_markets \ roster.markets
       IN  IF variant = "trader" /\ added_markets # {}
           THEN roster' = [roster EXCEPT !.new_markets = new_markets,
                                         !.pending = TRUE,
                                         !.step = "update_wait"]
           ELSE roster' = [roster EXCEPT !.markets = new_markets,
                                         !.step = "update"]
    /\ UNCHANGED <<trading_vars, candle_vars, manager_vars, analysis_vars, request, limits,
                   running, tasks>>

\* trader.py: the added markets are initialised, "self.markets = new_markets"
UpdateResume ==
    /\ roster.pending
    /\ roster' = [roster EXCEPT !.markets = roster.new_markets,
                                !.new_markets = {},
                                !.pending = FALSE,
                                !.step = "update"]
    /\ UNCHANGED <<trading_vars, candle_vars, manager_vars, analysis_vars, request, limits,
                   running, tasks>>

\* _trading_loop: "for market in self.markets" takes the list as it is now
RosterTick ==
    /\ roster.pc = "sleep"
    /\ roster' = [roster EXCEPT !.pc = "scan", !.scan = roster.markets, !.step = "tick"]
    /\ UNCHANGED <<trading_vars, candle_vars, manager_vars, analysis_vars, request, limits,
                   running, tasks>>

\* one market of the loop: _manage_position if it holds a position, else
\* _find_entry; a live buy is suspended in "await asyncio.sleep(1.0)" before
\* state.position is set
RosterVisit(m, act) ==
    /\ roster.pc = "scan"
    /\ m \in roster.scan
    /\ IF roster.position[m] = "held"
       THEN /\ act \in {"hold", "sell"}
            /\ roster' = [roster EXCEPT !.scan = @ \ {m},
                              !.position[m] = IF act = "sell" THEN "none" ELSE @,
                              !.step = "manage"]
       ELSE /\ act \in {"pass", "buy"}
            /\ roster' = [roster EXCEPT !.scan = @ \ {m},
                              !.position[m] = IF act = "pass" THEN @
                                              ELSE IF DRY_RUN THEN "held" ELSE "buying",
                              !.pc = IF act = "buy" /\ ~DRY_RUN THEN "buy_wait" ELSE @,
                              !.buying = IF act = "buy" /\ ~DRY_RUN THEN m ELSE @,
                              !.step = "entry"]
    /\ UNCHANGED <<trading_vars, candle_vars, manager_vars, analysis_vars, request, limits,
                   running, tasks>>

\* _execute_buy after the sleep: state.position is set
RosterBuyResume ==
    /\ roster.pc = "buy_wait"
    /\ roster' = [roster EXCEPT !.position[roster.buying] = "held",
                                !.pc = "scan",
                                !.buying = "",
                                !.step = "bought"]
    /\ UNCHANGED <<trading_vars, candle_vars, manager_vars, analysis_vars, request, limits,
                   running, tasks>>

\* the for loop is through: "await asyncio.sleep(0.1)"
RosterTickEnd ==
    /\ roster.pc = "scan"
    /\ roster.scan = {}
    /\ roster' = [roster EXCEPT !.pc = "sleep", !.step = "sleep"]
    /\ UNCHANGED <<trading_vars, candle_vars, manager_vars, analysis_vars, request, limits,
                   running, tasks>>

RosterStep ==
    \/ \E top \in TopMarkets : UpdateTopMarkets(top)
    \/ UpdateResume
    \/ RosterTick
    \/ \E m \in Markets, act \in {"hold", "sell", "pass", "buy"} : RosterVisit(m, act)
    \/ RosterBuyResume
    \/ RosterTickEnd

\* both programs, both modes, the market list against the trading loop
InitRoster == Init /\ markets = <<"KRW-A">> /\ tracked = "candle.1m"
SpecRoster == InitRoster /\ [][RosterStep]_vars

\* ------------------------------------------------------------------------
\* Specifications
\* ------------------------------------------------------------------------
\* steps of the trading loop that every configuration takes
LoopStep ==
    \/ TickStart
    \/ TickEnd
    \/ \E m \in Markets : Skip(m)
    \/ \E m \in Markets : Manage(m)
    \/ \E m \in Markets : FindEntry(m)

\* steps that continue a live order after its sleep
ResumeStep ==
    \/ BuyResume
    \/ SellResume
    \/ \E state \in {"done", "cancel"} : MyOrder(state)

\* messages and time
EnvStep ==
    \/ \E balance \in KrwBalances : MyAsset(balance)
    \/ \E m \in Markets : \E price \in MarketPrices(m) : PriceUpdate(m, price)
    \/ \E t \in Times : AdvanceClock(t)

BtcStep == \E outcome \in BtcOutcomes : CheckBtcTrend(outcome)

\* commands that never suspend
CommandStep ==
    \/ \E m \in CommandMarkets : UserBuy(m)
    \/ \E m \in CommandMarkets : UserSell(m)
    \/ \E m \in CommandMarkets, price \in CommandPrices : UserStopLoss(m, price)

\* market list refresh, candle messages, periodic save, exchange clock;
\* a refresh draws the outcomes of the requests that fill the followed ring
CandleStep ==
    \/ \E latest, fetch, fallback \in ApiOutcomes :
          tracked = "candle.1m" /\ AddMarket(latest, fetch, fallback, "ok", 0)
    \/ \E seconds \in {"ok", "error"}, available \in 0 .. RingCap :
          tracked = "candle.1s" /\ AddMarket("ok", "ok", "ok", seconds, available)
    \/ RemoveMarket
    \/ \E price \in TradePrices : CandleMinute(price)
    \/ \E price \in TradePrices : CandleSecond(price)
    \/ MacroUpdate
    \/ NextCandle

\* the holding time of a position runs
HoldingStep == \E t \in HoldingTimes : AdvanceClock(t)

Next ==
    \/ LoopStep
    \/ ResumeStep
    \/ EnvStep
    \/ BtcStep
    \/ CommandStep
    \/ CmdSellResume
    \/ CandleStep
    \/ \E price \in ManagerPrices : ManagerTick(price)
    \/ DetectCombinedMomentum
    \/ AnalyzeMacro
    \/ FindEntryGates
    \/ RequestStep
    \/ UpdateTechnicalIndicators
    \/ HoldingStep
    \/ CanTrade
    \/ AnalyzeMultiTimeframe
    \/ \E l \in Loops : TaskStep(l)
    \/ Quit
    \/ RosterStep
    \/ Restart

\* both programs, both modes, one or two markets
Spec == Init /\ [][Next]_vars

\* DRY_RUN, one market, the user at the console
InitSim == Init /\ DRY_RUN /\ Len(markets) = 1 /\ tracked = "candle.1m"
NextSim == LoopStep \/ EnvStep \/ CommandStep
SpecSim == InitSim /\ [][NextSim]_vars

\* live orders, one market, the user at the console
InitLive == Init /\ ~DRY_RUN /\ Len(markets) = 1 /\ tracked = "candle.1m"
NextLive == LoopStep \/ ResumeStep \/ EnvStep \/ CommandStep \/ CmdSellResume
SpecLive == InitLive /\ [][NextLive]_vars

\* live orders, two markets, the BTC monitor running
InitBtc == Init /\ ~DRY_RUN /\ Len(markets) = 2 /\ tracked = "candle.1m"
NextBtc == LoopStep \/ ResumeStep \/ EnvStep \/ BtcStep
SpecBtc == InitBtc /\ [][NextBtc]_vars

\* the analyzer of one market while nothing is traded
InitCandles == Init /\ variant = "momentum_trader" /\ DRY_RUN /\ markets = <<"KRW-A">>
NextCandles == CandleStep
SpecCandles == InitCandles /\ [][NextCandles]_vars

\* the 1-minute ring and its CSV file over restarts of the program
InitRestart == InitCandles /\ tracked = "candle.1m"
NextRestart ==
    \/ \E latest, fetch, fallback \in ApiOutcomes : AddMarket(latest, fetch, fallback, "ok", 0)
    \/ RemoveMarket
    \/ Restart
    \/ \E price \in TradePrices : CandleMinute(price)
    \/ MacroUpdate
    \/ NextCandle
SpecRestart == InitRestart /\ [][NextRestart]_vars

\* the position manager, tick after tick on one position, in either program
InitManager == Init /\ DRY_RUN /\ markets = <<"KRW-A">> /\ tracked = "candle.1m"
NextManager == \E price \in ManagerPrices : ManagerTick(price)
SpecManager == InitManager /\ [][NextManager]_vars

\* the position manager on one position held for hours
InitHolding == InitManager
NextHolding == NextManager \/ HoldingStep
SpecHolding == InitHolding /\ [][NextHolding]_vars

\* the tasks of momentum_trader.py around a quit command.  The event loop
\* runs every task that is ready, and every sleep and every read (30 s
\* timeout) ends
InitShutdown == InitManager /\ variant = "momentum_trader"
NextShutdown == (\E l \in Loops : TaskStep(l)) \/ Quit
SpecShutdown == /\ InitShutdown
                /\ [][NextShutdown]_vars
                /\ \A l \in Loops : WF_vars(TaskStep(l))

\* one multi-timeframe analysis on any ring of 5-minute candles
InitTimeframes == InitManager /\ variant = "momentum_trader"
NextTimeframes == AnalyzeMultiTimeframe
SpecTimeframes == InitTimeframes /\ [][NextTimeframes]_vars

\* one call of can_trade on any trade log
InitLimits == InitManager /\ variant = "momentum_trader"
NextLimits == CanTrade
SpecLimits == InitLimits /\ [][NextLimits]_vars

\* one entry analysis on any analyzer state
InitMomentum == Init /\ variant = "momentum_trader" /\ DRY_RUN /\ markets = <<"KRW-A">>
                     /\ tracked = "candle.1m"
NextMomentum == DetectCombinedMomentum
SpecMomentum == InitMomentum /\ [][NextMomentum]_vars

\* one macro analysis and the entry search after it
InitMacro == Init /\ DRY_RUN /\ markets = <<"KRW-A">> /\ tracked = "candle.1m"
NextMacro == AnalyzeMacro \/ FindEntryGates
SpecMacro == InitMacro /\ [][NextMacro]_vars

\* the REST client and its callers
InitRequest == Init /\ variant = "momentum_trader" /\ DRY_RUN /\ markets = <<"KRW-A">>
                    /\ tracked = "candle.1m"
NextRequest == RequestStep
SpecRequest == InitRequest /\ [][NextRequest]_vars

\* one update of the indicators on any price history
InitIndicators == Init /\ variant = "momentum_trader" /\ DRY_RUN /\ markets = <<"KRW-A">>
                       /\ tracked = "candle.1m"
NextIndicators == UpdateTechnicalIndicators
SpecIndicators == InitIndicators /\ [][NextIndicators]_vars

\* ------------------------------------------------------------------------
\* Claims
\* ------------------------------------------------------------------------
InFlight(m) == loop.pc = "buy_wait" /\ markets[loop.idx] = m

last_trade(st) == st.trades_today[Len(st.trades_today)]

\* C1: while processing_order is true for an instrument, no step sends an
\* order for that instrument (automatic buy, position-manager sell, user
\* buy or user sell).
C1_NoOrderWhileProcessing ==
    [][\A m \in Markets :
          states[m].processing_order => orders'.market # m]_vars

\* C1, the state the claim excludes: an order for the instrument has just
\* gone out although the automatic buy that set processing_order received
\* its myOrder message before, so the order is a second one.
C1_SecondOrder ==
    \E m \in Markets :
       /\ InFlight(m)
       /\ states[m].processing_order
       /\ loop.fill = "done"
       /\ orders = Order(m, "bid")

SamePosition(m) ==
    /\ has_position(states[m])
    /\ states'[m].position = states[m].position
    /\ states'[m].entry_time = states[m].entry_time

StopNotLowered(m) ==
    (states[m].trailing_active /\ SamePosition(m))
        => states'[m].stop_loss_price >= states[m].stop_loss_price

C3_TrailingFloor ==
    \A m \in Markets :
       (/\ trace.op = "manage"
        /\ trace.market = m
        /\ trace.result = "hold"
        /\ states[m].trailing_active)
          => states[m].stop_loss_price >= Scaled(states[m].entry_price, TRAILING_MIN_PROFIT)

\* C3, the state the claim excludes: after a manager tick of a position
\* that _execute_buy opened, the position is open, trailing_active is true
\* and the stop lies below the entry price.
C3_TrailingBelowEntry ==
    \E m \in Markets :
       /\ trace.op = "manage"
       /\ trace.market = m
       /\ trace.result = "hold"
       /\ states[m].trailing_active
       /\ states[m].stop_loss_price < states[m].entry_price
       /\ states[m].trades_today # <<>>
       /\ last_trade(states[m]).type = "buy"
       /\ last_trade(states[m]).time = states[m].entry_time

\* C4: in live mode a position appears only when the fill of the buy order
\* has been confirmed.
C4_PositionOnlyOnFill ==
    [][\A m \in Markets :
          (~DRY_RUN /\ ~has_position(states[m]) /\ has_position(states'[m]))
             => loop.fill = "done"]_vars

\* C4, the state the claim excludes: the loop has entered a position for an
\* order the exchange reported cancelled.
C4_PositionOnCancelled ==
    \E m \in Markets :
       /\ ~DRY_RUN
       /\ trace.op = "find_entry"
       /\ trace.market = m
       /\ trace.result = "entered"
       /\ trace.fill = "cancel"
       /\ has_position(states[m])
       /\ last_trade(states[m]).type = "buy"

\* C5: processing_order is set only while a call of _execute_buy is
\* suspended in its sleep: once the call has returned (entry, insufficient
\* balance, failed order), the flag is clear.
C5_FlagClearedOnReturn ==
    \A m \in Markets : states[m].processing_order => InFlight(m)

\* C5, the case: a call of _execute_buy that set the flag, slept, entered
\* the position and returned with the flag clear.
C5_ReturnedAfterEntry ==
    \E m \in Markets :
       /\ ~DRY_RUN
       /\ trace.op = "find_entry"
       /\ trace.market = m
       /\ trace.result = "entered"
       /\ ~states[m].processing_order
       /\ has_position(states[m])

Opens(m) == ~has_position(states[m]) /\ has_position(states'[m])

\* C6: whenever an instrument goes from no position to a position,
\* can_trade() held just before, and trades_today has gained one record.
C6_EntryGuardedAndRecorded ==
    [][\A m \in Markets :
          Opens(m) => /\ can_trade(states[m], now)
                      /\ Len(states'[m].trades_today) = Len(states[m].trades_today) + 1]_vars

\* C6, the state the claim excludes: a position is open, can_trade() is
\* false at the very instant it was opened, and the last record of
\* trades_today is the previous exit, not a buy.
C6_UnrecordedEntry ==
    \E m \in Markets :
       /\ has_position(states[m])
       /\ states[m].entry_time = now
       /\ states[m].trades_today # <<>>
       /\ last_trade(states[m]).type # "buy"
       /\ last_trade(states[m]).time = now

\* C7: _find_entry is never invoked for an instrument that holds a position.
C7_NoFindEntryWithPosition == trace.op = "find_entry" => ~trace.had_position

\* C7, the case: the tick manages the first market, which holds a position,
\* and invokes _find_entry for the second, which holds none.
C7_FindEntryBesidePosition ==
    /\ Len(markets) = 2
    /\ trace.op = "find_entry"
    /\ trace.market = markets[2]
    /\ has_position(states[markets[1]])
    /\ ~has_position(states[markets[2]])

\* C8: _find_entry is not invoked while market_safe is false, and a tick
\* that starts with market_safe false manages every market with a position.
C8_NoEntryWhileUnsafe ==
    /\ trace.op = "find_entry" => trace.market_safe
    /\ (trace.op = "skip" /\ ~loop.safe) => ~trace.had_position

\* C8, the state the claim excludes: _find_entry has just been invoked for
\* the second market although market_safe went false during the tick.
C8_EntryWhileUnsafe ==
    /\ trace.op = "find_entry"
    /\ ~trace.market_safe
    /\ btc_trend = "bearish"

C11_InsufficientChangesNothing ==
    [][(loop.pc = "scan" /\ trace'.op = "find_entry" /\ trace'.result = "insufficient")
          => /\ orders' = NoOrder
             /\ states' = states
             /\ cumulative' = cumulative
             /\ krw_balance' = krw_balance]_vars

\* C11, the case: live mode, the instrument has traded before, and the
\* entry just attempted was rejected for lack of balance.
C11_RejectedAfterTrades ==
    \E m \in Markets :
       /\ ~DRY_RUN
       /\ trace.op = "find_entry"
       /\ trace.market = m
       /\ trace.result = "insufficient"
       /\ states[m].trades_today # <<>>
       /\ invest_amount(krw_balance) < MIN_ORDER_AMOUNT

\* C12: when the processing of one instrument fails during a decision tick
\* (the analysis of _find_entry raises, or the order request fails), the
\* loop goes on to the next instrument of the same tick.
C12_FailureDoesNotStopTick ==
    [][(loop.pc = "scan" /\ trace'.result \in {"find_error", "raised", "order_failed"})
          => /\ loop'.pc = "scan"
             /\ loop'.idx = loop.idx + 1]_vars

\* C12, the state the claim excludes: the analysis of the first of two
\* instruments raised, and the tick has ended without the second one.
C12_TickAborted ==
    /\ Len(markets) = 2
    /\ trace.op = "find_entry"
    /\ trace.market = markets[1]
    /\ trace.result = "raised"
    /\ loop.pc = "sleep"

\* a ring is non-decreasing by open time
Ordered(ring) == \A i \in 1 .. Len(ring) - 1 : ring[i].kst <= ring[i + 1].kst

\* C13: after any sequence of REST initialisations, market-list
\* re-additions and live candle updates, every candle ring is
\* non-decreasing by open time
C13_RingsOrdered == Ordered(minute_candles) /\ Ordered(second_candles)

\* a re-addition put older 1-minute candles behind the ones the ring held
C13_ReAddedBehind ==
    /\ listed
    /\ last_update.op \in {"add", "backfill"}
    /\ Len(minute_candles) = RingCap
    /\ minute_candles[1].kst > minute_candles[2].kst

\* the candles of a ring, each with the number of times it is held
Held(ring) ==
    [c \in {ring[i] : i \in DOMAIN ring} |-> Cardinality({i \in DOMAIN ring : ring[i] = c})]

\* C14: applying the REST backfill with the same candle list a second
\* time leaves the ring as the first application left it, up to the order
\* of the candles
C14_BackfillTwice ==
    last_update.op = "backfill"
        => Held(update_second_candles(second_candles, last_update.candles))
               = Held(second_candles)

\* a backfill shorter than the ring has just been applied to a full ring,
\* and a second application would push out a candle the first one kept
C14_SecondBackfillEvicts ==
    /\ last_update.op = "backfill"
    /\ last_update.candles # <<>>
    /\ Len(last_update.candles) < RingCap
    /\ Len(second_candles) = RingCap
    /\ \E i \in DOMAIN second_candles :
          \A j \in 1 .. RingCap :
              update_second_candles(second_candles, last_update.candles)[j]
                  # second_candles[i]

\* C15: applying the same live candle a second time leaves the ring
\* exactly as the first application left it
C15_LiveCandleTwice ==
    /\ last_update.op = "candle.1m"
          => update_candle_from_ws(minute_candles, last_update.candles[1]) = minute_candles
    /\ last_update.op = "candle.1s"
          => update_candle_from_ws(second_candles, last_update.candles[1]) = second_candles

\* a live candle has just been applied to a full ring whose last candle
\* came from the REST API
C15_LiveCandleOnFullRing ==
    /\ last_update.op = "candle.1m"
    /\ Len(minute_candles) = RingCap
    /\ minute_candles[RingCap] = last_update.candles[1]
    /\ minute_candles[RingCap - 1].utc # NoTime

\* C16: after any sequence of backfills and live updates a ring holds at
\* most its capacity
C16_RingWithinCapacity ==
    /\ Len(minute_candles) <= RingCap
    /\ Len(second_candles) <= RingCap

\* the 1-minute ring is full and has dropped its first candle
C16_RingFullAfterEviction ==
    /\ Len(minute_candles) = RingCap
    /\ minute_candles[1].kst > 1
    /\ last_update.op = "candle.1m"

C18_BreakEvenOnTick ==
    [][ticks' # ticks =>
          LET price == ticks'[Len(ticks')]
              entry == managed.entry_price
          IN  (ProfitRateAtLeast(price, entry, BREAK_EVEN_TRIGGER)
                 /\ managed.stop_loss_price < entry)
                => IF ProfitRateAtLeast(price, entry, TRAILING_STOP_ACTIVATION)
                   THEN managed'.stop_loss_price >= entry
                   ELSE managed'.stop_loss_price = entry]_vars

\* trader.py after one tick at 100.7: the stop is still the initial 98.0
C18_StopLeftBelowEntry ==
    /\ variant = "trader"
    /\ ticks = <<Price(1007)>>
    /\ has_position(managed)
    /\ managed.entry_price = Price(1000)
    /\ managed.stop_loss_price = Price(980)
\* C19: whenever the 1-minute price_change is at least MTF_MAX_1M_CHANGE,
\* the combined momentum result has signal false, whatever its strength
\* and however valid and bullish the multi-timeframe result is
C19_ParabolicRejected ==
    momentum.analysed /\ momentum.minute.price_change >= MTF_MAX_1M_CHANGE
        => ~momentum.result.signal
\* a 3.5% minute rise on a valid bullish multi-timeframe result, analysed
\* with four or more 5-minute candles held, comes back as a signal
C19_ParabolicEntered ==
    /\ momentum.analysed
    /\ momentum.minute.price_change >= MTF_MAX_1M_CHANGE
    /\ momentum.mtf.valid_entry
    /\ momentum.mtf.trend_5m = "bullish"
    /\ momentum.input.m5_count > WEAKENING_CANDLES
    /\ momentum.result.signal

\* the multi-timeframe inputs besides the 5-minute change are bullish
ElseBullish(x) ==
    /\ ~x.macro_bearish /\ ~x.sell_wall /\ ~x.ma_downtrend /\ ~x.three_down
    /\ x.volume_ok /\ x.strong_buying /\ x.trend_15m = "bullish"
    /\ x.last_momentum >= 0 /\ x.last_momentum * 2 >= x.prev_momentum

\* C20: whenever the 5-minute stage is late (change_5m >= 0.02 over the
\* 24-candle window) and a momentum signal fires with everything else
\* bullish, the combined result has signal false and its reasons carry a
\* late-stage marker
C20_LateStageRejected ==
    /\ momentum.analysed
    /\ momentum.mtf.stage = "late"
    /\ momentum.fired
    /\ ElseBullish(momentum.input)
    => ~momentum.result.signal /\ "late_stage" \in momentum.result.reasons
\* a fired signal on a late stage with everything else bullish comes back
\* as a signal with no late-stage marker
C20_LateStageEntered ==
    /\ momentum.analysed
    /\ momentum.mtf.stage = "late"
    /\ momentum.input.change_5m >= MTF_5M_EARLY_STAGE_MAX
    /\ momentum.input.m5_count >= MTF_5M_MIN_CANDLES
    /\ momentum.fired
    /\ ElseBullish(momentum.input)
    /\ momentum.result.signal
    /\ "late_stage" \notin momentum.result.reasons

\* C23: whenever the cached order book imbalance is <= -0.3 when the
\* analysis is made, the combined result has signal false and strength 0,
\* whatever the minute, second and multi-timeframe signals are
C23_SellWallRejected ==
    momentum.analysed /\ momentum.input.sell_wall
        => ~momentum.result.signal /\ momentum.result.strength = 0
\* a sell wall met by a fired signal of full strength on a valid bullish
\* multi-timeframe result
C23_SellWallOnSignal ==
    /\ momentum.analysed
    /\ momentum.input.sell_wall
    /\ momentum.fired
    /\ momentum.minute.signal /\ momentum.minute.strength = 100
    /\ momentum.mtf.valid_entry /\ momentum.mtf.trend_5m = "bullish"
    /\ momentum.result.mtf_blocked

\* C28: whenever the multi-timeframe result has valid_entry false (in
\* particular whenever the macro trend is bearish), the combined result has
\* signal false
C28_InvalidEntryRejected ==
    momentum.analysed /\ ~momentum.mtf.valid_entry => ~momentum.result.signal
\* a bearish macro trend, valid_entry false, and the result is a signal
C28_BearishMacroEntered ==
    /\ momentum.analysed
    /\ momentum.input.macro_bearish
    /\ ~momentum.mtf.valid_entry
    /\ momentum.result.signal

\* the long-term filter applies to the analysed input: no strong short
\* momentum, and the 3-day or the 4-hour change at or below its threshold
LongTermBearish ==
    /\ macro.analysed
    /\ ~macro.result.strong_short_momentum
    /\ \/ macro.input.daily_3d_change <= DAILY_BEARISH_THRESHOLD
       \/ macro.input.h4_change <= H4_BEARISH_THRESHOLD

\* C21: with the long-term filter enabled and no strong short momentum, a
\* 3-day change <= DAILY_BEARISH_THRESHOLD or a 4-hour change <=
\* H4_BEARISH_THRESHOLD gives trend bearish and can_trade false even on a
\* short squeeze, block_reason names the 3-day drop when there is one, and
\* the entry search on the market does not come to a buy
C21_BearFilterBlocks ==
    LongTermBearish =>
        /\ macro.result.trend = "bearish"
        /\ ~macro.result.can_trade
        /\ (macro.input.daily_3d_change <= DAILY_BEARISH_THRESHOLD
               => macro.result.block_reason = "daily_3d")
        /\ macro.entry # "execute_buy"
\* M15 +2.0%, H4 -1.0%, D3 -2.5%: bearish, can_trade false, and the
\* entry search that follows comes to _execute_buy
C21_BearishEntered ==
    /\ LongTermBearish
    /\ macro.input.m15_change = 20
    /\ macro.input.h4_change = 0 - 10
    /\ macro.input.daily_3d_change = 0 - 25
    /\ macro.result.trend = "bearish" /\ ~macro.result.can_trade
    /\ macro.result.block_reason = "daily_3d"
    /\ macro.entry = "execute_buy"

\* the analysed input is the scenario: M5 +1.8%, the last 1-minute
\* returns +0.3%, +0.1%, +0.4%, +0.2% (the four that five candles give),
\* H4 +0.3%, bid pressure 60%, fatigue 30, the 3-hour downtrend context of
\* the V-reversal given by the 15-minute candles
StrongShortScenario ==
    /\ macro.analysed
    /\ macro.input.m5_change = 18
    /\ macro.input.m1_changes = <<3, 1, 4, 2>>
    /\ macro.input.h4_change = 3
    /\ macro.input.buy_pressure = 60
    /\ macro.input.fatigue_score = 30
    /\ macro.input.long_downtrend

\* C22: on the scenario analyze_macro yields strong_short_momentum = true
\* and the long-term bearish filter is bypassed
C22_StrongShortPasses ==
    StrongShortScenario =>
        macro.result.strong_short_momentum /\ ~macro.result.long_term_bearish
\* C22 as the code has it: the returns of the scenario hold no drop, no
\* V-reversal is detected, strong_short_momentum is false and the
\* long-term filter applies to the 3-day change
C22_StrongShortNeedsDrop ==
    StrongShortScenario =>
        /\ ~macro.result.strong_short_momentum
        /\ macro.result.long_term_bearish
               = (macro.input.daily_3d_change <= DAILY_BEARISH_THRESHOLD)
\* the scenario on a 3-day drop of 2.5%: no exception, trend bearish
C22_ScenarioBlocked ==
    /\ StrongShortScenario
    /\ macro.input.daily_3d_change = 0 - 25
    /\ ~macro.result.strong_short_momentum
    /\ macro.result.trend = "bearish"
    /\ macro.result.block_reason = "daily_3d"

\* C24: on every exit cumulative_profit grows by that exit's profit,
\* volume * sell_price - volume * entry_price
\*   - (buy_value + sell_value) * TRADING_FEE_RATE
C24_CumulativeByProfit ==
    [][\A m \in Markets :
          (/\ has_position(states[m])
           /\ ~has_position(states'[m])
           /\ Len(states'[m].trades_today) = Len(states[m].trades_today) + 1)
          => LET volume == states[m].position.volume
                 buy_value == volume * states[m].position.price
                 sell_value == volume * last_trade(states'[m]).price
             IN  cumulative'.profit = cumulative.profit + sell_value - buy_value
                                         - (buy_value + sell_value) \div TRADING_FEE_DIV]_vars
\* trader.py closed a position at another price than its entry: the
\* cumulative profit is the price difference, no fee taken off
C24_ExitWithoutFee ==
    \E m \in Markets :
       /\ variant = "trader"
       /\ ~has_position(states[m])
       /\ states[m].trades_today # <<>>
       /\ last_trade(states[m]).type # "buy"
       /\ cumulative.trades = 1
       /\ cumulative.profit = last_trade(states[m]).profit
       /\ cumulative.profit > 0

\* C25: a REST call makes at most four attempts; it waits and tries again
\* only after a response 429, each wait twice the one before; any other
\* HTTP error is raised to the caller the first time it occurs
C25_RetryOn429Only ==
    LET n == Len(request.responses)
    IN  /\ n <= MAX_ATTEMPTS
        /\ \A k \in 1 .. n :
               /\ k < n => request.responses[k] = "429"
               /\ request.responses[k] \in {"400", "500"}
                      => k = n /\ request.result = "raised"
        /\ Len(request.waits)
               = Cardinality({k \in 1 .. n : request.responses[k] = "429"})
        /\ \A k \in 1 .. Len(request.waits) :
               request.waits[k] = IF k = 1 THEN 1 ELSE 2 * request.waits[k - 1]
\* three responses 429, each waited for, then a 500 raised on the fourth
\* attempt
C25_RaisedAfterRetries ==
    /\ request.responses = <<"429", "429", "429", "500">>
    /\ request.waits = <<1, 2, 4>>
    /\ request.result = "raised"

\* the price changes the RSI was computed from
RsiChanges ==
    LET prices == indicators.prices
        n == Min(RSI_PERIOD + 1, Len(prices)) - 1
    IN  [i \in 1 .. n |-> prices[Len(prices) + 1 - i] - prices[Len(prices) - i]]

\* C27: when the price changes used for the RSI hold no loss, the RSI is
\* 100 if at least one change is a gain and 50 if none is
C27_RsiWithoutLosses ==
    (/\ indicators.updated
     /\ Len(indicators.prices) >= RSI_MIN_PRICES
     /\ \A i \in 1 .. Len(RsiChanges) : RsiChanges[i] >= 0)
    => indicators.rsi_value
          = IF \E i \in 1 .. Len(RsiChanges) : RsiChanges[i] > 0
            THEN 100 * Per ELSE 50 * Per
\* fifteen ticks at one price, neither gain nor loss, and an RSI of 100
C27_FlatPricesAtHundred ==
    /\ indicators.updated
    /\ Len(indicators.prices) = RSI_PERIOD + 1
    /\ \A i \in 1 .. Len(RsiChanges) : RsiChanges[i] = 0
    /\ indicators.rsi_value = 100 * Per

\* C29: a manager tick with the price above stop_loss_price, on which the
\* take-profit promotion does not apply, exits a position held for
\* MAX_HOLDING_TIME or longer with reason time_exit
C29_TimeExit ==
    [][(/\ ticks' # ticks
        /\ managed.entry_time # NoTime
        /\ now - managed.entry_time >= MAX_HOLDING_TIME
        /\ LET price == ticks'[Len(ticks')]
               r == manage_position(managed, price, now)
           IN  /\ price > r.st.stop_loss_price
               /\ ~(price >= managed.take_profit_price /\ ~managed.trailing_active))
       => /\ ~has_position(managed')
          /\ last_trade(managed').type = "time_exit"]_vars
\* trader.py still holds the position after a tick at 100.7 made six hours
\* after the entry
C29_HeldPastHoldingTime ==
    /\ variant = "trader"
    /\ now = MAX_HOLDING_TIME
    /\ managed.entry_time = 0
    /\ ticks = <<Price(1007)>>
    /\ has_position(managed)
\* the consecutive losses a trade log ends with: exits by the stop or without
\* a profit, counted back to the last profitable exit
RECURSIVE LossRun(_)
LossRun(log) ==
    IF log = <<>> THEN 0
    ELSE LET trade == log[Len(log)]
             before == SubSeq(log, 1, Len(log) - 1)
         IN  IF trade.type = "buy" THEN LossRun(before)
             ELSE IF trade.type = "stop_loss" \/ trade.profit <= 0 THEN 1 + LossRun(before)
             ELSE 0

C26_LoopsTerminate ==
    ~running ~> (\A l \in Loops : tasks[l] = "done")
\* the quit command has been processed and all eight tasks have returned
C26_AllReturned ==
    /\ ~running
    /\ \A l \in Loops : tasks[l] = "done"
\* C40: a REST request ends by returning the parsed response or by raising
\* an error to its caller, never by returning without a result, four
\* responses 429 included
C40_ReturnsOrRaises ==
    request.result \in {"none", "pending", "returned", "raised"}
\* four attempts, each answered 429 and waited for, and the call has ended
\* without a return value
C40_NoneAfterFour429 ==
    /\ request.responses = <<"429", "429", "429", "429">>
    /\ request.waits = <<1, 2, 4, 8>>
    /\ request.result = "returned_none"
\* C31: the entry search executes a buy only after a combined momentum
\* result with signal = true on the same tick, and every combined momentum
\* result with signal = true has a strength of MIN_SIGNAL_STRENGTH or more
C31_BuyOnStrongSignal ==
    /\ macro.entry = "execute_buy" => macro.momentum.signal
    /\ macro.momentum.signal => macro.momentum.strength >= Points(MIN_SIGNAL_STRENGTH)
\* the entry search has executed a buy on a signal of strength 75 to 100
C31_BoughtOnSignal ==
    /\ macro.entry = "execute_buy"
    /\ macro.momentum.signal
    /\ macro.momentum.strength \in Points(MIN_SIGNAL_STRENGTH) .. Points(100)
\* the multi-timeframe analysis of a ring of fifty candles or more whose
\* MA15 is below its MA50
InDowntrend ==
    /\ momentum.analysed
    /\ "window" \in DOMAIN momentum.input
    /\ is_downtrend(momentum.input.window)

\* C32: in a 5-minute downtrend (MA15 < MA50) the multi-timeframe result
\* keeps valid_entry = true only if disparity < -0.015, the last candle is
\* bullish and its volume is at least 1.5 times the average of the three
\* before it; in every other downtrend case valid_entry = false
C32_DowntrendNeedsBounce ==
    InDowntrend =>
        LET w == momentum.input.window
        IN  momentum.mtf.valid_entry
                => /\ (w.current * MA_SHORT - ma15_sum(w)) * Per < DISPARITY_MIN * ma15_sum(w)
                   /\ w.close > w.open
                   /\ w.prev_volume > 0 /\ 2 * w.volume >= 3 * w.prev_volume
\* a downtrend, the price 2% under MA15, the last candle falling on a
\* volume below the average, and valid_entry = true
C32_FallingCandleValid ==
    /\ InDowntrend
    /\ momentum.input.window.current = 196
    /\ momentum.input.window.close = 196
    /\ 2 * momentum.input.window.volume < 3 * momentum.input.window.prev_volume
    /\ momentum.mtf.valid_entry
\* C33: right after a market-list refresh has assigned self.markets, every
\* instrument that holds a position is in the list
C33_HeldListedAfterRefresh ==
    roster.step = "update" => held_markets(roster) \subseteq roster.markets

\* trader.py: a refresh has ended and left a held instrument off the list
C33_HeldDroppedByRefresh ==
    /\ variant = "trader"
    /\ roster.step = "update"
    /\ roster.position["KRW-A"] = "held"
    /\ "KRW-A" \notin roster.markets

\* C36: at every decision tick, every instrument that holds a position is in
\* the list the tick goes through
C36_HeldScannedAtTick ==
    roster.step = "tick" => held_markets(roster) \subseteq roster.scan

\* momentum_trader.py, live: a tick starts without the instrument whose buy
\* was in flight during the refresh
C36_TickWithoutHeld ==
    /\ variant = "momentum_trader"
    /\ ~DRY_RUN
    /\ roster.step = "tick"
    /\ roster.position["KRW-A"] = "held"
    /\ "KRW-A" \notin roster.scan
\* C37: for COOL_DOWN_AFTER_LOSS seconds after an exit recorded with a loss,
\* whether by stop_loss, trailing_stop or time_exit, the entry search of that
\* instrument ends at its guards
C37_NoEntryAfterLoss ==
    limits.checked =>
        LET log == limits.st.trades_today
        IN  \A i \in 1 .. Len(log) :
                (/\ log[Len(log)].type # "buy"
                 /\ log[i].type \in {"stop_loss", "trailing_stop", "time_exit"}
                 /\ log[i].profit < 0
                 /\ limits.t - log[i].time < COOL_DOWN_AFTER_LOSS)
                => limits.entry # "open"

\* 300 s after a losing time_exit, at a price 2% below it, the entry search
\* goes on to the analysis
C37_EntryOpenAfterLosingTimeExit ==
    /\ limits.checked
    /\ limits.st.trades_today # <<>>
    /\ LET trade == limits.st.trades_today[Len(limits.st.trades_today)]
       IN  /\ trade.type = "time_exit"
           /\ trade.profit < 0
           /\ limits.t - trade.time = TRADE_COOLDOWN
    /\ limits.entry = "open"
\* C38: a step that opens a position on an instrument leaves it with
\* trailing_active false
C38_NewPositionNotTrailing ==
    [][\A m \in Markets :
          (~has_position(states[m]) /\ has_position(states'[m]))
             => ~states'[m].trailing_active]_vars

\* _find_entry has just bought, and the new position has trailing_active set
C38_EnteredTrailing ==
    \E m \in Markets :
       /\ trace.op = "find_entry"
       /\ trace.market = m
       /\ trace.result = "entered"
       /\ has_position(states[m])
       /\ last_trade(states[m]).type = "buy"
       /\ last_trade(states[m]).time = states[m].entry_time
       /\ states[m].trailing_active
\* C39: with BTC_DOWNTREND_BUY_BLOCK enabled, btc_trend bearish implies
\* market_safe false, whatever BTC checks succeeded or failed before
C39_BearishMeansUnsafe ==
    (btc_trend = "bearish" /\ BTC_DOWNTREND_BUY_BLOCK) => ~market_safe

\* a failed BTC check after a bearish one: the trend is still bearish, the
\* block is enabled, and market_safe is true
C39_BearishAndSafe ==
    /\ BTC_DOWNTREND_BUY_BLOCK
    /\ btc_trend = "bearish"
    /\ market_safe
\* a sell order of the instrument's position has gone out and its
\* _execute_sell has not yet closed the position
SellInFlight(m) ==
    \/ loop.pc = "sell_wait" /\ markets[loop.idx] = m
    \/ cmd.pc = "sell_wait" /\ cmd.market = m

\* C35: no step sends a sell order for an instrument whose position already
\* has a sell order in flight, be it the position manager's or the user's
C35_OneSellPerPosition ==
    [][\A m \in Markets :
          (SellInFlight(m) /\ has_position(states[m])) => orders' # Order(m, "ask")]_vars

\* the manager's sell and the user's /sell are both waiting on the same
\* position, the second order just sent
C35_TwoSellsInFlight ==
    \E m \in Markets :
       /\ has_position(states[m])
       /\ loop.pc = "sell_wait"
       /\ markets[loop.idx] = m
       /\ cmd.pc = "sell_wait"
       /\ cmd.market = m
       /\ orders = Order(m, "ask")
\* smart_init found local candles (only then it asks for the latest candle)
\* and a REST request of it came back empty: the one for the latest candle,
\* or the one for the candles after the local ones
EmptyFetch(u) ==
    /\ u.op = "add"
    /\ u.latest = "empty" \/ (u.latest = "ok" /\ u.fetch = "empty")

\* C34: a smart_init with local candles and an empty REST response leaves
\* the ring ending with the local candles and the CSV file not empty
C34_EmptyFetchKeepsLocal ==
    [][(tracked = "candle.1m" /\ ~listed /\ listed' /\ EmptyFetch(last_update'))
          => /\ disk' # <<>>
             /\ Len(minute_candles') >= Len(disk)
             /\ SubSeq(minute_candles', Len(minute_candles') - Len(disk) + 1,
                       Len(minute_candles')) = disk]_vars

\* after a restart the reload of a stale cache came back empty: the ring is
\* empty and so is the file
C34_CacheEmptied ==
    /\ listed
    /\ tracked = "candle.1m"
    /\ EmptyFetch(last_update)
    /\ last_update.latest = "ok"
    /\ minute_candles = <<>>
    /\ disk = <<>>
====
